---- MODULE Spec2Model ----
(***************************************************************************)
(* Model of github.com/tredoe/term:                                        *)
(*   - Terminal (package term): the saved / working termios snapshots, the *)
(*     mode bits and the mode transitions RawMode, EchoMode, CharMode,     *)
(*     SetMode, Restore, GetSize;                                          *)
(*   - GapBuffer (package gapbuffer): NewGapBuffer, InsertChar,            *)
(*     InsertChars, NextChar, PrevChar, NextWord, PrevWord;                *)
(*   - the interrupt handlers of packages quest and question: ExitAtCtrlC, *)
(*     ExitAtCtrlD and the listener of NewCustom, beside the main flow;    *)
(*   - the byte stream read by the line reader;                            *)
(*   - the readers of packages question and quest: Prompt, Default, Mod,   *)
(*     Min, Max, Range, Read*, Choice*, readExtra;                         *)
(*   - the slice readers (Read*Slice, ReadMultipleString) and the line     *)
(*     newLine creates for each question;                                  *)
(*   - quest.New with the caller's boolean strings, and ReadBool;          *)
(*   - NewCustom with the caller's prefixPrompt, and the prompt newLine    *)
(*     builds from it.                                                     *)
(* Each part has its own specification (SpecTerm, SpecGap, SpecIntr,       *)
(* SpecBytes, SpecRead, SpecSlice, SpecBool, SpecPrompt); the variables of *)
(* the other parts keep their initial value.                               *)
(***************************************************************************)
EXTENDS Integers, Sequences, FiniteSets, TLC

VARIABLES
    \* ---- term.Terminal ----
    mode,        \* Terminal.mode: the set of mode bits that are set (0 = {})
    oldState,    \* Terminal.oldState: the original snapshot
    lastState,   \* Terminal.lastState: the working snapshot
    winsize,     \* Terminal.size (sys.Winsize)
    dev,         \* the attributes the kernel holds for the descriptor fd
    \* history of the Terminal calls
    captured,    \* the attributes sys.Getattr returned inside NewWithAll
    lastOp,      \* the last Terminal method called
    lastErr,     \* TRUE iff that call returned a non-nil error
    applied,     \* TRUE iff that call applied attributes to the device (sys.Setattr succeeded)
    anyErr,      \* TRUE iff some call since NewWithAll returned an error
    prevOp,      \* the Terminal method called before lastOp
    prevApplied, \* the value of applied after that call
    \* ---- gapbuffer.GapBuffer ----
    buf,         \* GapBuffer.buf, a function 0..len(buf)-1 -> rune
    size,        \* GapBuffer.size
    gapStart,    \* GapBuffer.gapStart
    gapEnd,      \* GapBuffer.gapEnd
    bufEnd,      \* GapBuffer.bufEnd
    cursor,      \* GapBuffer.cursor
    panicked,    \* TRUE once a call ended in a run-time panic (index out of range)
    \* history of the GapBuffer calls
    gLastOp,     \* the last GapBuffer method called
    gLastRet,    \* what it returned: "true", "false", "nil", "none", "panic"
    gArg,        \* the runes handed to the last InsertChar / InsertChars
    refText,     \* reference model: a plain sequence of runes ...
    refCursor,   \* ... with a cursor, driven by the same calls
    \* ---- interrupt handlers (ExitAtCtrlC, ExitAtCtrlD, NewCustom) ----
    handlers,    \* the handler goroutines started so far, in start order
    output,      \* what the handlers have written to term.Output
    exitStatus,  \* the status os.Exit was called with, NotExited before
    reading,     \* TRUE while the main flow is inside a line read
    raced,       \* TRUE once a main-flow mode call ran during a handler's Restore
    hLast,       \* the last handler step: [i, kind, step]
    \* ---- the byte stream of the terminal (readline.Line.Read) ----
    input,       \* the bytes typed during the session
    stream,      \* the bytes not consumed yet
    editLine,    \* the bytes inserted into the line being edited
    fates,       \* what became of each consumed byte: [byte, fate]
    events,      \* the interrupt events received: [ev, to]
    \* ---- Question (packages question and quest) ----
    pkg,         \* the code the session runs: "question", "part_000" or "quest"
    qPrompt,     \* Question.prompt
    schema,      \* the constraints: Bydefault, modifier, min, max
    call,        \* the Read* / Choice* call in progress: [fn, kind, hadError, start, extraChars, ansi, prompt]
    log,         \* every line.Read so far: [start, err, line, value]
    qRet,        \* what the call that just finished returned, for its caller
    qLast,       \* the last step of the Question
    shown,       \* what the last step wrote once line.Read had returned: [to, text]
    isSlice,     \* schema.IsSlice (question), isSlice (part_000), isMultiple (quest)
    sliceCall,   \* the Read*Slice / ReadMultipleString call: [status, kind, values, extraChars, ansi, last, prompt]
    suffixAnsi,  \* the ANSI styling bytes held in suffixPrompt (defString in quest)
    \* ---- quest.New: the boolean strings ----
    trueString,  \* Question.trueString, a sequence of code points
    falseString, \* Question.falseString
    extraBool,   \* Question.extraBool, a function from strings to BOOLEAN
    prefixPrompt \* Question.prefixPrompt (prefix in quest), a sequence of code points

termVars == <<mode, oldState, lastState, winsize, dev, captured, lastOp,
              lastErr, applied, anyErr, prevOp, prevApplied>>
gapVars  == <<buf, size, gapStart, gapEnd, bufEnd, cursor, panicked, gLastOp,
              gLastRet, gArg, refText, refCursor>>
intrVars == <<handlers, output, exitStatus, reading, raced, hLast>>
byteVars == <<input, stream, editLine, fates, events>>
readVars == <<pkg, qPrompt, schema, call, log, qRet, qLast, shown>>
formVars == <<isSlice, sliceCall, suffixAnsi>>
boolVars == <<trueString, falseString, extraBool, prefixPrompt>>
askVars  == <<readVars, formVars, boolVars>>
vars     == <<termVars, gapVars, intrVars, byteVars, askVars>>

----------------------------------------------------------------------------
(***************************************************************************)
(* sys.Termios.  The flag words are sets of flag names; a flag constant of *)
(* package sys is the set of the bits it has.  CSIZE is the two-bit        *)
(* character-size mask and CS8 has both of its bits.                       *)
(***************************************************************************)
BRKINT == {"BRKINT"}
IGNBRK == {"IGNBRK"}
ICRNL  == {"ICRNL"}
INLCR  == {"INLCR"}
IGNCR  == {"IGNCR"}
ISTRIP == {"ISTRIP"}
IXON   == {"IXON"}
PARMRK == {"PARMRK"}
IUTF8  == {"IUTF8"}
OPOST  == {"OPOST"}
ONLCR  == {"ONLCR"}
ECHO   == {"ECHO"}
ECHOE  == {"ECHOE"}
ECHONL == {"ECHONL"}
ICANON == {"ICANON"}
IEXTEN == {"IEXTEN"}
ISIG   == {"ISIG"}
CSIZE  == {"CSIZE0", "CSIZE1"}
CS8    == {"CSIZE0", "CSIZE1"}
CS6    == {"CSIZE0"}
PARENB == {"PARENB"}
CREAD  == {"CREAD"}

\* The mode bits of modeType, used with |= and &^= : distinct single bits.
\* Terminal.mode is the set of the bits that are set, 0 the empty set.
RawModeBit   == "RawMode"
EchoModeBit  == "EchoMode"
CharModeBit  == "CharMode"
OtherModeBit == "OtherMode"

\* The control characters the model follows: the two RawMode / CharMode set
\* and one they do not name.
CcIndex == {"VMIN", "VTIME", "VEOF"}

\* Attributes of a terminal in the usual cooked mode.
CookedAttrs ==
    [Iflag |-> BRKINT \cup ICRNL \cup IXON \cup IUTF8,
     Oflag |-> OPOST \cup ONLCR,
     Lflag |-> ECHO \cup ECHOE \cup ICANON \cup IEXTEN \cup ISIG,
     Cflag |-> CS8 \cup CREAD,
     Cc    |-> [i \in CcIndex |-> IF i = "VEOF" THEN 4 ELSE IF i = "VMIN" THEN 1 ELSE 0]]

\* Cooked, echo off, newline echoed, 6-bit characters with parity, timed read.
NoEchoAttrs ==
    [Iflag |-> IGNBRK \cup INLCR \cup IGNCR \cup ISTRIP \cup PARMRK,
     Oflag |-> ONLCR,
     Lflag |-> ECHONL \cup ICANON \cup ISIG,
     Cflag |-> CS6 \cup PARENB \cup CREAD,
     Cc    |-> [i \in CcIndex |-> IF i = "VEOF" THEN 4 ELSE IF i = "VMIN" THEN 0 ELSE 5]]

\* Every flag of the model clear.
BareAttrs ==
    [Iflag |-> {}, Oflag |-> {}, Lflag |-> {}, Cflag |-> {},
     Cc    |-> [i \in CcIndex |-> 0]]

\* The attribute values a descriptor starts with and SetMode is handed.
TermiosInputs == {CookedAttrs, NoEchoAttrs, BareAttrs}

\* The window size sys.GetWinsize reports.
WinsizeInputs == {[Row |-> 24, Col |-> 80]}

----------------------------------------------------------------------------
(***************************************************************************)
(* The attribute changes of the mode methods, as functions of lastState.   *)
(***************************************************************************)
\* RawAttrs with ISIG left out of the local-mode mask.
MutRawAttrsKeepsISIG(s) ==
    [Iflag |-> s.Iflag \ (BRKINT \cup IGNBRK \cup ICRNL \cup INLCR \cup
                          IGNCR \cup ISTRIP \cup IXON \cup PARMRK),
     Oflag |-> s.Oflag \ OPOST,
     Lflag |-> s.Lflag \ (ECHO \cup ECHONL \cup ICANON \cup IEXTEN),
     Cflag |-> (s.Cflag \ (CSIZE \cup PARENB)) \cup CS8,
     Cc    |-> [s.Cc EXCEPT !["VMIN"] = 1, !["VTIME"] = 0]]

RawAttrs(s) ==
    [Iflag |-> s.Iflag \ (BRKINT \cup IGNBRK \cup ICRNL \cup INLCR \cup
                          IGNCR \cup ISTRIP \cup IXON \cup PARMRK),
     Oflag |-> s.Oflag \ OPOST,
     Lflag |-> s.Lflag \ (ECHO \cup ECHONL \cup ICANON \cup IEXTEN \cup ISIG),
     Cflag |-> (s.Cflag \ (CSIZE \cup PARENB)) \cup CS8,
     Cc    |-> [s.Cc EXCEPT !["VMIN"] = 1, !["VTIME"] = 0]]

\* EchoMode with the wider flag set of its commented-out lines: ECHOE and
\* ECHONL follow ECHO.
MutEchoAttrsAllEcho(s, echo) ==
    IF ~echo THEN [s EXCEPT !.Lflag = @ \ (ECHO \cup ECHOE \cup ECHONL)]
             ELSE [s EXCEPT !.Lflag = @ \cup (ECHO \cup ECHOE \cup ECHONL)]

EchoAttrs(s, echo) ==
    IF ~echo THEN [s EXCEPT !.Lflag = @ \ ECHO]
             ELSE [s EXCEPT !.Lflag = @ \cup ECHO]

CharAttrs(s) ==
    [s EXCEPT !.Lflag = @ \ ICANON, !.Cc["VTIME"] = 0, !.Cc["VMIN"] = 1]

\* sys.Setattr(fd, when, &st): ok says whether the system call succeeds; a
\* failed call leaves the device as it is.
Setattr(st, ok) == IF ok THEN st ELSE dev

\* The history variables after a call of method op.
Called(op, err, ok) ==
    /\ lastOp'  = op
    /\ lastErr' = err
    /\ applied' = ok
    /\ anyErr'  = (anyErr \/ err)
    /\ prevOp'  = lastOp
    /\ prevApplied' = applied
    /\ captured' = captured

\* exitStatus while no goroutine has called os.Exit.
NotExited == -1

\* A bound of the schema that is not set.
NoBound == -1

\* valid.NewSchema(0): no default, no modifier flag, no bound.
NewSchema == [Bydefault |-> "", modifier |-> {}, min |-> NoBound, max |-> NoBound]

\* No Read* / Choice* call is in progress.
IdleCall == [fn |-> "none", kind |-> "none", hadError |-> FALSE, start |-> 0,
             extraChars |-> 0, ansi |-> 0, prompt |-> <<>>]

\* sliceCall while no Read*Slice / ReadMultipleString call has been made
\* since the last step.
IdleSlice == [status |-> "idle", kind |-> "none", values |-> <<>>,
              extraChars |-> 0, ansi |-> 0, last |-> 0, prompt |-> <<>>]

\* _PREFIX = " + " (q_PREFIX in quest) and _PREFIX_MULTI = "   * "
\* (q_MULTIPLE_PREFIX), as code points.
PREFIX       == <<32, 43, 32>>
PREFIX_MULTI == <<32, 32, 32, 42, 32>>

\* q_TRUE_STRING = "y" and q_FALSE_STRING = "n", as code points.
q_TRUE_STRING  == <<121>>
q_FALSE_STRING == <<110>>

\* No call has returned yet.
NoRet == [fn |-> "none", kind |-> "none", value |-> "", err |-> "nil",
          panicked |-> FALSE, last |-> 0]

----------------------------------------------------------------------------
\* NewWithAll: Getattr fills lastState, which is copied to oldState.  The
\* gap buffer of this specification is an empty one that is never used.
InitTerm ==
    /\ dev \in TermiosInputs
    /\ lastState = dev
    /\ oldState = lastState
    /\ mode = {}
    /\ winsize = [Row |-> 0, Col |-> 0]
    /\ captured = dev
    /\ lastOp = "NewWithAll"
    /\ lastErr = FALSE
    /\ applied = FALSE
    /\ anyErr = FALSE
    /\ prevOp = "none"
    /\ prevApplied = FALSE
    /\ buf = <<>>
    /\ size = 0
    /\ gapStart = 0
    /\ gapEnd = -1
    /\ bufEnd = -1
    /\ cursor = 0
    /\ panicked = FALSE
    /\ gLastOp = "NewGapBuffer"
    /\ gLastRet = "none"
    /\ gArg = <<>>
    /\ refText = <<>>
    /\ refCursor = 0
    /\ handlers = <<>>
    /\ output = <<>>
    /\ exitStatus = NotExited
    /\ reading = FALSE
    /\ raced = FALSE
    /\ hLast = [i |-> 0, kind |-> "none", step |-> "none"]
    /\ input = <<>>
    /\ stream = <<>>
    /\ editLine = <<>>
    /\ fates = <<>>
    /\ events = <<>>
    /\ pkg = "question"
    /\ qPrompt = ""
    /\ schema = NewSchema
    /\ call = IdleCall
    /\ log = <<>>
    /\ qRet = NoRet
    /\ qLast = "New"
    /\ shown = <<>>
    /\ isSlice = FALSE
    /\ sliceCall = IdleSlice
    /\ suffixAnsi = 0
    /\ trueString = q_TRUE_STRING
    /\ falseString = q_FALSE_STRING
    /\ extraBool = <<>>
    /\ prefixPrompt = PREFIX

\* Restore that marks the session restored before looking at the error.
MutRestoreMarksOnError ==
    \E ok \in BOOLEAN :
        IF mode # {}
        THEN /\ dev' = Setattr(oldState, ok)
             /\ lastState' = oldState
             /\ mode' = {}
             /\ Called("Restore", ~ok, ok)
             /\ UNCHANGED <<oldState, winsize>>
        ELSE /\ ok
             /\ UNCHANGED <<dev, lastState, mode, oldState, winsize>>
             /\ Called("Restore", FALSE, FALSE)

\* Restore without the final t.mode = 0.
MutRestoreKeepsMode ==
    \E ok \in BOOLEAN :
        IF mode # {}
        THEN /\ dev' = Setattr(oldState, ok)
             /\ lastState' = IF ok THEN oldState ELSE lastState
             /\ Called("Restore", ~ok, ok)
             /\ UNCHANGED <<mode, oldState, winsize>>
        ELSE /\ ok
             /\ UNCHANGED <<dev, lastState, mode, oldState, winsize>>
             /\ Called("Restore", FALSE, FALSE)

Restore ==
    \E ok \in BOOLEAN :
        IF mode # {}
        THEN /\ dev' = Setattr(oldState, ok)
             /\ IF ok
                THEN /\ lastState' = oldState
                     /\ mode' = {}
                ELSE UNCHANGED <<lastState, mode>>
             /\ Called("Restore", ~ok, ok)
             /\ UNCHANGED <<oldState, winsize>>
        ELSE /\ ok
             /\ UNCHANGED <<dev, lastState, mode, oldState, winsize>>
             /\ Called("Restore", FALSE, FALSE)

RawMode ==
    \E ok \in BOOLEAN :
        /\ lastState' = RawAttrs(lastState)
        /\ dev' = Setattr(lastState', ok)
        /\ mode' = IF ok THEN mode \cup {RawModeBit} ELSE mode
        /\ Called("RawMode", ~ok, ok)
        /\ UNCHANGED <<oldState, winsize>>

EchoMode(echo) ==
    \E ok \in BOOLEAN :
        /\ lastState' = EchoAttrs(lastState, echo)
        /\ dev' = Setattr(lastState', ok)
        /\ mode' = IF ~ok THEN mode
                   ELSE IF echo THEN mode \cup {EchoModeBit}
                   ELSE mode \ {EchoModeBit}
        /\ Called(IF echo THEN "EchoMode(true)" ELSE "EchoMode(false)",
                  ~ok, ok)
        /\ UNCHANGED <<oldState, winsize>>

CharMode ==
    \E ok \in BOOLEAN :
        /\ lastState' = CharAttrs(lastState)
        /\ dev' = Setattr(lastState', ok)
        /\ mode' = IF ok THEN mode \cup {CharModeBit} ELSE mode
        /\ Called("CharMode", ~ok, ok)
        /\ UNCHANGED <<oldState, winsize>>

\* SetMode storing state in oldState instead of lastState.
MutSetModeWritesOldState(state) ==
    \E ok \in BOOLEAN :
        /\ dev' = Setattr(state, ok)
        /\ oldState' = IF ok THEN state ELSE oldState
        /\ mode' = IF ok THEN mode \cup {OtherModeBit} ELSE mode
        /\ Called("SetMode", ~ok, ok)
        /\ UNCHANGED <<lastState, winsize>>

SetMode(state) ==
    \E ok \in BOOLEAN :
        /\ dev' = Setattr(state, ok)
        /\ lastState' = IF ok THEN state ELSE lastState
        /\ mode' = IF ok THEN mode \cup {OtherModeBit} ELSE mode
        /\ Called("SetMode", ~ok, ok)
        /\ UNCHANGED <<oldState, winsize>>

\* GetSize: GetWinsize fills t.size, or fails and leaves it.
GetSize ==
    \E ok \in BOOLEAN, ws \in WinsizeInputs :
        /\ winsize' = IF ok THEN ws ELSE winsize
        /\ UNCHANGED <<dev, lastState, oldState, mode>>
        /\ Called("GetSize", ~ok, FALSE)

EchoModeOn  == EchoMode(TRUE)
EchoModeOff == EchoMode(FALSE)
SetModeAny  == \E state \in TermiosInputs : SetMode(state)

NextTerm ==
    /\ \/ Restore
       \/ RawMode
       \/ EchoModeOn
       \/ EchoModeOff
       \/ CharMode
       \/ SetModeAny
       \/ GetSize
    /\ UNCHANGED <<gapVars, intrVars, byteVars, askVars>>

----------------------------------------------------------------------------
(***************************************************************************)
(* gapbuffer.GapBuffer.  A buffer is the record of its fields; a method is *)
(* an operator from the record before the call to the record after it.  An *)
(* index outside 0..len(buf)-1 is a run-time panic: the fields assigned    *)
(* before the faulting statement keep their new values.                    *)
(***************************************************************************)
MaxBufLen == 4     \* NewGapBuffer is handed slices of length 0..MaxBufLen
MaxText   == 5     \* the reference text grows to at most MaxText runes
MaxRunes  == 2     \* InsertChars is handed 1..MaxRunes runes

Space == 32
Runes == {Space, 97}

\* Go's integer division truncates toward zero.
GoDiv(a, b) == IF a >= 0 THEN a \div b ELSE -((-a) \div b)

Len0(b)       == Cardinality(DOMAIN b)
InRange(b, i) == i \in DOMAIN b

GB == [buf |-> buf, size |-> size, gapStart |-> gapStart, gapEnd |-> gapEnd,
       bufEnd |-> bufEnd, cursor |-> cursor, panicked |-> panicked]

Panic(g) == [g EXCEPT !.panicked = TRUE]

NewGapBuffer(b) ==
    LET lastIndex == Len0(b) - 1
    IN  [buf |-> b, size |-> 0, gapStart |-> GoDiv(lastIndex, 2),
         gapEnd |-> lastIndex, bufEnd |-> lastIndex, cursor |-> 0,
         panicked |-> FALSE]

NextCharOp(g) ==
    IF g.cursor < Len0(g.buf)
    THEN LET g1 == [g EXCEPT !.cursor = @ + 1, !.gapStart = @ + 1, !.gapEnd = @ + 1]
         IN  IF ~(InRange(g1.buf, g1.cursor) /\ InRange(g1.buf, g1.gapEnd))
             THEN [g |-> Panic(g1), ok |-> FALSE]
             ELSE LET b1 == [g1.buf EXCEPT ![g1.cursor] = g1.buf[g1.gapEnd]]
                      b2 == [b1 EXCEPT ![g1.gapEnd] = 0]
                  IN  [g |-> [g1 EXCEPT !.buf = b2], ok |-> TRUE]
    ELSE [g |-> g, ok |-> FALSE]

PrevCharOp(g) ==
    IF g.cursor > 0
    THEN LET g1 == [g EXCEPT !.cursor = @ - 1]
         IN  IF ~(InRange(g1.buf, g1.gapEnd) /\ InRange(g1.buf, g1.cursor))
             THEN [g |-> Panic(g1), ok |-> FALSE]
             ELSE LET b1 == [g1.buf EXCEPT ![g1.gapEnd] = g1.buf[g1.cursor]]
                      b2 == [b1 EXCEPT ![g1.cursor] = 0]
                  IN  [g |-> [g1 EXCEPT !.buf = b2, !.gapStart = @ - 1,
                                        !.gapEnd = @ - 1],
                       ok |-> TRUE]
    ELSE [g |-> g, ok |-> FALSE]

RECURSIVE NextWordOp(_)
NextWordOp(g) ==
    LET r == NextCharOp(g)
    IN  IF r.g.panicked THEN r.g
        ELSE IF ~r.ok THEN r.g
        ELSE IF r.g.buf[r.g.cursor] = Space THEN r.g
        ELSE NextWordOp(r.g)

RECURSIVE PrevWordOp(_)
PrevWordOp(g) ==
    LET r == PrevCharOp(g)
    IN  IF r.g.panicked THEN r.g
        ELSE IF ~r.ok THEN r.g
        ELSE IF ~InRange(r.g.buf, r.g.cursor - 1) THEN Panic(r.g)
        ELSE IF r.g.buf[r.g.cursor - 1] = Space THEN r.g
        ELSE PrevWordOp(r.g)

InsertCharOp(g, r) ==
    IF ~InRange(g.buf, g.cursor)
    THEN Panic(g)
    ELSE [g EXCEPT !.buf = [@ EXCEPT ![g.cursor] = r], !.cursor = @ + 1]

RECURSIVE InsertCharsOp(_, _)
InsertCharsOp(g, runes) ==
    IF runes = <<>> THEN g
    ELSE LET g1 == InsertCharOp(g, Head(runes))
         IN  IF g1.panicked THEN g1 ELSE InsertCharsOp(g1, Tail(runes))

\* The text a gap buffer holds: buf[0:gapStart] ++ buf[gapEnd+1:bufEnd+1].
RECURSIVE Cells(_, _, _)
Cells(b, lo, hi) ==
    IF lo > hi THEN <<>>
    ELSE (IF InRange(b, lo) THEN <<b[lo]>> ELSE <<>>) \o Cells(b, lo + 1, hi)

LogicalText(g) == Cells(g.buf, 0, g.gapStart - 1) \o Cells(g.buf, g.gapEnd + 1, g.bufEnd)

----------------------------------------------------------------------------
\* The reference model: a plain sequence with a cursor.
RefInsert(t, c, r) == [text |-> SubSeq(t, 1, c) \o <<r>> \o SubSeq(t, c + 1, Len(t)),
                       cursor |-> c + 1]

RECURSIVE RefInsertAll(_, _, _)
RefInsertAll(t, c, runes) ==
    IF runes = <<>> THEN [text |-> t, cursor |-> c]
    ELSE LET m == RefInsert(t, c, Head(runes))
         IN  RefInsertAll(m.text, m.cursor, Tail(runes))

RefRight(t, c) == IF c < Len(t) THEN c + 1 ELSE c
RefLeft(t, c)  == IF c > 0 THEN c - 1 ELSE c

RECURSIVE RefWordRight(_, _)
RefWordRight(t, c) ==
    IF c >= Len(t) THEN c
    ELSE IF t[c + 1] = Space THEN c + 1 ELSE RefWordRight(t, c + 1)

RECURSIVE RefWordLeft(_, _)
RefWordLeft(t, c) ==
    IF c <= 0 THEN c
    ELSE IF t[c] = Space THEN c - 1 ELSE RefWordLeft(t, c - 1)

----------------------------------------------------------------------------
\* The GapBuffer fields after a call that left the record g.
SetGB(g) ==
    /\ buf' = g.buf
    /\ size' = g.size
    /\ gapStart' = g.gapStart
    /\ gapEnd' = g.gapEnd
    /\ bufEnd' = g.bufEnd
    /\ cursor' = g.cursor
    /\ panicked' = g.panicked

GCalled(op, ret, arg, g) ==
    /\ gLastOp' = op
    /\ gLastRet' = IF g.panicked THEN "panic" ELSE ret
    /\ gArg' = arg

\* NewGapBuffer(make([]rune, n)) for n in 0..MaxBufLen.  The terminal of
\* this specification is a cooked one that is never used.
InitGap ==
    /\ \E n \in 0..MaxBufLen :
        LET g == NewGapBuffer([i \in 0..(n - 1) |-> 0])
        IN  /\ buf = g.buf
            /\ size = g.size
            /\ gapStart = g.gapStart
            /\ gapEnd = g.gapEnd
            /\ bufEnd = g.bufEnd
            /\ cursor = g.cursor
            /\ panicked = g.panicked
            /\ gLastOp = "NewGapBuffer"
            /\ gLastRet = "none"
            /\ gArg = <<>>
            /\ refText = LogicalText(g)
            /\ refCursor = Len(refText)
    /\ dev = CookedAttrs
    /\ lastState = dev
    /\ oldState = lastState
    /\ mode = {}
    /\ winsize = [Row |-> 0, Col |-> 0]
    /\ captured = dev
    /\ lastOp = "NewWithAll"
    /\ lastErr = FALSE
    /\ applied = FALSE
    /\ anyErr = FALSE
    /\ prevOp = "none"
    /\ prevApplied = FALSE
    /\ handlers = <<>>
    /\ output = <<>>
    /\ exitStatus = NotExited
    /\ reading = FALSE
    /\ raced = FALSE
    /\ hLast = [i |-> 0, kind |-> "none", step |-> "none"]
    /\ input = <<>>
    /\ stream = <<>>
    /\ editLine = <<>>
    /\ fates = <<>>
    /\ events = <<>>
    /\ pkg = "question"
    /\ qPrompt = ""
    /\ schema = NewSchema
    /\ call = IdleCall
    /\ log = <<>>
    /\ qRet = NoRet
    /\ qLast = "New"
    /\ shown = <<>>
    /\ isSlice = FALSE
    /\ sliceCall = IdleSlice
    /\ suffixAnsi = 0
    /\ trueString = q_TRUE_STRING
    /\ falseString = q_FALSE_STRING
    /\ extraBool = <<>>
    /\ prefixPrompt = PREFIX

InsertChar ==
    \E r \in Runes :
        /\ ~panicked
        /\ Len(refText) < MaxText
        /\ LET g == InsertCharOp(GB, r)
               m == RefInsert(refText, refCursor, r)
           IN  /\ SetGB(g)
               /\ GCalled("InsertChar", "nil", <<r>>, g)
               /\ refText' = m.text
               /\ refCursor' = m.cursor

InsertChars ==
    \E n \in 1..MaxRunes : \E runes \in [1..n -> Runes] :
        /\ ~panicked
        /\ Len(refText) + n <= MaxText
        /\ LET g == InsertCharsOp(GB, runes)
               m == RefInsertAll(refText, refCursor, runes)
           IN  /\ SetGB(g)
               /\ GCalled("InsertChars", "nil", runes, g)
               /\ refText' = m.text
               /\ refCursor' = m.cursor

NextChar ==
    /\ ~panicked
    /\ LET r == NextCharOp(GB)
       IN  /\ SetGB(r.g)
           /\ GCalled("NextChar", IF r.ok THEN "true" ELSE "false", <<>>, r.g)
    /\ refCursor' = RefRight(refText, refCursor)
    /\ UNCHANGED refText

PrevChar ==
    /\ ~panicked
    /\ LET r == PrevCharOp(GB)
       IN  /\ SetGB(r.g)
           /\ GCalled("PrevChar", IF r.ok THEN "true" ELSE "false", <<>>, r.g)
    /\ refCursor' = RefLeft(refText, refCursor)
    /\ UNCHANGED refText

NextWord ==
    /\ ~panicked
    /\ LET g == NextWordOp(GB)
       IN  /\ SetGB(g)
           /\ GCalled("NextWord", "none", <<>>, g)
    /\ refCursor' = RefWordRight(refText, refCursor)
    /\ UNCHANGED refText

PrevWord ==
    /\ ~panicked
    /\ LET g == PrevWordOp(GB)
       IN  /\ SetGB(g)
           /\ GCalled("PrevWord", "none", <<>>, g)
    /\ refCursor' = RefWordLeft(refText, refCursor)
    /\ UNCHANGED refText

NextGap ==
    /\ \/ InsertChar
       \/ InsertChars
       \/ NextChar
       \/ PrevChar
       \/ NextWord
       \/ PrevWord
    /\ UNCHANGED <<termVars, intrVars, byteVars, askVars>>

----------------------------------------------------------------------------
(***************************************************************************)
(* The interrupt handlers of packages quest and question.  ExitAtCtrlC,    *)
(* ExitAtCtrlD and NewCustom each start a goroutine that receives from the *)
(* package-level channels readline.ChanCtrlC / readline.ChanCtrlD.  A      *)
(* goroutine is the record [kind, n, pc, err, wrote, gotC]: pc is its      *)
(* position, err says that its Restore failed, wrote that it has written   *)
(* the erase-line sequence, gotC that it has received a CTRL-C.  The main  *)
(* flow alternates between starting a line read (the terminal goes to raw  *)
(* mode) and finishing it (Restore).                                       *)
(***************************************************************************)
MaxHandlers == 2            \* at most MaxHandlers handler goroutines are started
ExitCodes   == {1, 3}       \* the status codes handed to ExitAtCtrlC / ExitAtCtrlD

DelLine_CR     == "DelLine_CR"    \* readline.DelLine_CR, "\033[2K\r"
ListenerStatus == 2               \* os.Exit(2) in the listener of NewCustom

Running == exitStatus = NotExited

RangeOf(f) == {f[x] : x \in DOMAIN f}

Goroutine(kind, n) ==
    [kind |-> kind, n |-> n, pc |-> "wait", err |-> FALSE, wrote |-> FALSE,
     gotC |-> FALSE]

\* The channels a goroutine of the given kind receives from in its select.
Receives(kind) ==
    CASE kind = "ExitAtCtrlC" -> {"CtrlC"}
      [] kind = "ExitAtCtrlD" -> {"CtrlD"}
      [] kind = "Listener"    -> {"CtrlC", "CtrlD"}

Waiting(ev) ==
    {i \in DOMAIN handlers :
        handlers[i].pc = "wait" /\ ev \in Receives(handlers[i].kind)}

\* TRUE iff some goroutine is between the first and the last statement of
\* the Terminal.Restore it calls.
InRestore == \E i \in DOMAIN handlers : handlers[i].pc \in {"restore", "assign"}

HStep(i, step) == hLast' = [i |-> i, kind |-> handlers[i].kind, step |-> step]

Start(kind, n) ==
    /\ Running
    /\ Len(handlers) < MaxHandlers
    /\ handlers' = Append(handlers, Goroutine(kind, n))
    /\ hLast' = [i |-> Len(handlers) + 1, kind |-> kind, step |-> "start"]
    /\ UNCHANGED <<termVars, output, exitStatus, reading, raced>>

ExitAtCtrlC == \E n \in ExitCodes : Start("ExitAtCtrlC", n)
ExitAtCtrlD == \E n \in ExitCodes : Start("ExitAtCtrlD", n)
NewCustom   == Start("Listener", ListenerStatus)

\* The line reader sends on a channel only from inside Line.Read.
LineReaderSends == Running /\ reading

\* A listener that returns after the CTRL-C case instead of looping.
MutListenerReturns(h) == [h EXCEPT !.pc = "done", !.gotC = TRUE]

\* case <-readline.ChanCtrlC: of the listener: empty, the for loop selects again.
ListenerOnCtrlC(h) == [h EXCEPT !.gotC = TRUE]

\* case <-readline.ChanCtrlC: received by goroutine i.
RecvCtrlC ==
    /\ LineReaderSends
    /\ \E i \in Waiting("CtrlC") :
        /\ handlers' = [handlers EXCEPT ![i] =
                IF @.kind = "Listener" THEN ListenerOnCtrlC(@)
                ELSE [@ EXCEPT !.pc = "restore", !.gotC = TRUE]]
        /\ HStep(i, "recvC")
    /\ UNCHANGED <<termVars, output, exitStatus, reading, raced>>

\* case <-readline.ChanCtrlD: received by goroutine i.
RecvCtrlD ==
    /\ LineReaderSends
    /\ \E i \in Waiting("CtrlD") :
        /\ handlers' = [handlers EXCEPT ![i].pc = "write"]
        /\ HStep(i, "recvD")
    /\ UNCHANGED <<termVars, output, exitStatus, reading, raced>>

\* q.Restore() in the goroutine of ExitAtCtrlC, first part: the test of
\* t.mode and sys.Setattr(oldState); the error is dropped.
HandlerRestore ==
    /\ Running
    /\ \E i \in DOMAIN handlers, ok \in BOOLEAN :
        /\ handlers[i].pc = "restore"
        /\ IF mode # {}
           THEN /\ dev' = Setattr(oldState, ok)
                /\ handlers' = [handlers EXCEPT
                        ![i].pc = IF ok THEN "assign" ELSE "write",
                        ![i].err = ~ok]
           ELSE /\ ok
                /\ dev' = dev
                /\ handlers' = [handlers EXCEPT ![i].pc = "write"]
        /\ HStep(i, "restore")
    /\ UNCHANGED <<mode, oldState, lastState, winsize, captured, lastOp,
                   lastErr, applied, anyErr, prevOp, prevApplied>>
    /\ UNCHANGED <<output, exitStatus, reading, raced>>

\* q.Restore() in the goroutine, second part: t.lastState = t.oldState and
\* t.mode = 0.
HandlerRestoreAssign ==
    /\ Running
    /\ \E i \in DOMAIN handlers :
        /\ handlers[i].pc = "assign"
        /\ handlers' = [handlers EXCEPT ![i].pc = "write"]
        /\ HStep(i, "assign")
    /\ lastState' = oldState
    /\ mode' = {}
    /\ UNCHANGED <<dev, oldState, winsize, captured, lastOp, lastErr, applied,
                   anyErr, prevOp, prevApplied>>
    /\ UNCHANGED <<output, exitStatus, reading, raced>>

\* term.Output.Write(readline.DelLine_CR)
HandlerWrite ==
    /\ Running
    /\ \E i \in DOMAIN handlers :
        /\ handlers[i].pc = "write"
        /\ handlers' = [handlers EXCEPT ![i].pc = "exit", ![i].wrote = TRUE]
        /\ HStep(i, "write")
    /\ output' = Append(output, DelLine_CR)
    /\ UNCHANGED <<termVars, exitStatus, reading, raced>>

\* os.Exit(n)
HandlerExit ==
    /\ Running
    /\ \E i \in DOMAIN handlers :
        /\ handlers[i].pc = "exit"
        /\ handlers' = [handlers EXCEPT ![i].pc = "done"]
        /\ exitStatus' = handlers[i].n
        /\ HStep(i, "exit")
    /\ UNCHANGED <<termVars, output, reading, raced>>

\* The main flow starts a line read: the terminal is put in raw mode.
BeginRead ==
    /\ Running
    /\ ~reading
    /\ RawMode
    /\ reading' = TRUE
    /\ raced' = (raced \/ InRestore)
    /\ UNCHANGED <<handlers, output, exitStatus, hLast>>

\* The main flow is back from the read and calls q.Restore().
EndRead ==
    /\ Running
    /\ reading
    /\ Restore
    /\ reading' = FALSE
    /\ raced' = (raced \/ InRestore)
    /\ UNCHANGED <<handlers, output, exitStatus, hLast>>

InitIntr ==
    /\ dev = CookedAttrs
    /\ lastState = dev
    /\ oldState = lastState
    /\ mode = {}
    /\ winsize = [Row |-> 0, Col |-> 0]
    /\ captured = dev
    /\ lastOp = "NewWithAll"
    /\ lastErr = FALSE
    /\ applied = FALSE
    /\ anyErr = FALSE
    /\ prevOp = "none"
    /\ prevApplied = FALSE
    /\ buf = <<>>
    /\ size = 0
    /\ gapStart = 0
    /\ gapEnd = -1
    /\ bufEnd = -1
    /\ cursor = 0
    /\ panicked = FALSE
    /\ gLastOp = "NewGapBuffer"
    /\ gLastRet = "none"
    /\ gArg = <<>>
    /\ refText = <<>>
    /\ refCursor = 0
    /\ handlers = <<>>
    /\ output = <<>>
    /\ exitStatus = NotExited
    /\ reading = FALSE
    /\ raced = FALSE
    /\ hLast = [i |-> 0, kind |-> "none", step |-> "none"]
    /\ input = <<>>
    /\ stream = <<>>
    /\ editLine = <<>>
    /\ fates = <<>>
    /\ events = <<>>
    /\ pkg = "question"
    /\ qPrompt = ""
    /\ schema = NewSchema
    /\ call = IdleCall
    /\ log = <<>>
    /\ qRet = NoRet
    /\ qLast = "New"
    /\ shown = <<>>
    /\ isSlice = FALSE
    /\ sliceCall = IdleSlice
    /\ suffixAnsi = 0
    /\ trueString = q_TRUE_STRING
    /\ falseString = q_FALSE_STRING
    /\ extraBool = <<>>
    /\ prefixPrompt = PREFIX

NextIntr ==
    /\ \/ ExitAtCtrlC
       \/ ExitAtCtrlD
       \/ NewCustom
       \/ RecvCtrlC
       \/ RecvCtrlD
       \/ HandlerRestore
       \/ HandlerRestoreAssign
       \/ HandlerWrite
       \/ HandlerExit
       \/ BeginRead
       \/ EndRead
    /\ UNCHANGED <<gapVars, byteVars, askVars>>

----------------------------------------------------------------------------
(***************************************************************************)
(* The byte stream.  The listener goroutine of NewCustom never reads the   *)
(* terminal: it only receives from the two channels.  The one reader of    *)
(* the bytes is readline.Line.Read, which classifies each byte: the        *)
(* interrupt bytes are claimed and raised as an event, every other byte    *)
(* goes to the editor.                                                     *)
(***************************************************************************)
MaxStream == 3     \* the session types at most MaxStream bytes

CtrlCByte == 3     \* 0x03
CtrlDByte == 4     \* 0x04
EnterByte == 13    \* 0x0D
LetterA   == 97    \* a printable byte
TabByte   == 9     \* a byte the editor ignores
Bytes     == {CtrlCByte, CtrlDByte, EnterByte, LetterA, TabByte}

Streams == UNION {[1..n -> Bytes] : n \in 0..MaxStream}

\* A dispatcher that claims no byte for the interrupt router.
MutClaimsNothing(b) == FALSE

\* The bytes the interrupt router claims before the editor sees them.
Claimed(b) == b \in {CtrlCByte, CtrlDByte}

\* What the editor does with a byte that was not claimed.
EditorFate(b) ==
    CASE b = EnterByte -> "confirm"
      [] b = LetterA   -> "insert"
      [] OTHER         -> "ignore"

Consume(fate) ==
    /\ stream' = Tail(stream)
    /\ fates' = Append(fates, [byte |-> Head(stream), fate |-> fate])
    /\ input' = input

\* The editor takes the next byte.
EditorByte ==
    /\ LineReaderSends
    /\ stream # <<>>
    /\ ~Claimed(Head(stream))
    /\ LET fate == EditorFate(Head(stream))
       IN  /\ Consume(fate)
           /\ editLine' = CASE fate = "insert"  -> Append(editLine, Head(stream))
                            [] fate = "confirm" -> <<>>
                            [] OTHER            -> editLine
    /\ UNCHANGED <<termVars, gapVars, intrVars, events>>

\* The next byte is 0x03: it is raised on ChanCtrlC and received by one
\* waiting goroutine.
CtrlCTyped ==
    /\ stream # <<>>
    /\ Head(stream) = CtrlCByte
    /\ RecvCtrlC
    /\ Consume("event")
    /\ events' = Append(events, [ev |-> "CtrlC", to |-> hLast'.i])
    /\ editLine' = <<>>
    /\ UNCHANGED gapVars

\* The next byte is 0x04: it is raised on ChanCtrlD and received by one
\* waiting goroutine; the read is aborted.
CtrlDTyped ==
    /\ stream # <<>>
    /\ Head(stream) = CtrlDByte
    /\ RecvCtrlD
    /\ Consume("event")
    /\ events' = Append(events, [ev |-> "CtrlD", to |-> hLast'.i])
    /\ editLine' = <<>>
    /\ UNCHANGED gapVars

\* What the listener goroutine does between two receives.
ListenerStep ==
    /\ \/ HandlerWrite
       \/ HandlerExit
    /\ UNCHANGED <<gapVars, byteVars>>

\* The main flow starts or finishes a read.
MainFlowStep ==
    /\ \/ BeginRead
       \/ EndRead
    /\ UNCHANGED <<gapVars, byteVars>>

\* NewCustom has started its listener; the session will type input.
InitBytes ==
    /\ input \in Streams
    /\ stream = input
    /\ editLine = <<>>
    /\ fates = <<>>
    /\ events = <<>>
    /\ handlers = <<Goroutine("Listener", ListenerStatus)>>
    /\ output = <<>>
    /\ exitStatus = NotExited
    /\ reading = FALSE
    /\ raced = FALSE
    /\ hLast = [i |-> 1, kind |-> "Listener", step |-> "start"]
    /\ dev = CookedAttrs
    /\ lastState = dev
    /\ oldState = lastState
    /\ mode = {}
    /\ winsize = [Row |-> 0, Col |-> 0]
    /\ captured = dev
    /\ lastOp = "NewWithAll"
    /\ lastErr = FALSE
    /\ applied = FALSE
    /\ anyErr = FALSE
    /\ prevOp = "none"
    /\ prevApplied = FALSE
    /\ buf = <<>>
    /\ size = 0
    /\ gapStart = 0
    /\ gapEnd = -1
    /\ bufEnd = -1
    /\ cursor = 0
    /\ panicked = FALSE
    /\ gLastOp = "NewGapBuffer"
    /\ gLastRet = "none"
    /\ gArg = <<>>
    /\ refText = <<>>
    /\ refCursor = 0
    /\ pkg = "question"
    /\ qPrompt = ""
    /\ schema = NewSchema
    /\ call = IdleCall
    /\ log = <<>>
    /\ qRet = NoRet
    /\ qLast = "New"
    /\ shown = <<>>
    /\ isSlice = FALSE
    /\ sliceCall = IdleSlice
    /\ suffixAnsi = 0
    /\ trueString = q_TRUE_STRING
    /\ falseString = q_FALSE_STRING
    /\ extraBool = <<>>
    /\ prefixPrompt = PREFIX

NextBytes ==
    /\ \/ EditorByte
       \/ CtrlCTyped
       \/ CtrlDTyped
       \/ ListenerStep
       \/ MainFlowStep
    /\ UNCHANGED askVars

----------------------------------------------------------------------------
(***************************************************************************)
(* The readers of packages question and quest.  pkg says which code runs:  *)
(* "question" (question.go, type.go, extra.go), "part_000" (the revision   *)
(* of package question whose Prompt resets nothing) or "quest" (quest.go). *)
(* A call blocks in line.Read; one step of the model runs the call from    *)
(* one line.Read to the next or to its return.  Every value is written as  *)
(* the string that prints it.  The log keeps, for every line read, the     *)
(* call that read it (by the index of the call's first line) and what the  *)
(* validation said; the text and the value are kept for the last line only.*)
(***************************************************************************)
MaxLines == 3      \* the session answers at most MaxLines times

ErrCtrlD == "ErrCtrlD"                  \* the error line.Read returns
Texts    == {"", "a@b", "7", "3", "0", "y"}  \* the lines line.Read returns
Items    == Texts \cup {ErrCtrlD}
Defaults == {"7"}                       \* the values handed to Default
BoolDefaults == {"false"}               \* the boolean values handed to Default
Prompts  == {"ok?"}                     \* the strings handed to Prompt
MinBound == 3                           \* the bound handed to Min and Range
MaxBound == 5                           \* the bound handed to Max and Range

Required      == "Required"
NumericKinds  == {"Int64"}         \* Uint64 and Float64 readers have the same code
Kinds         == {"String", "Bool"} \cup NumericKinds
ChoiceKinds   == {"Int64", "String"}
Choices(kind) == IF kind = "String" THEN {"a@b"} ELSE {"3"}

ValidatorErrors == {"ErrRequired", "TypeMismatch", "OutOfRange", "InvalidChoice"}

\* The zero value of the Go type a reader of the kind returns.
Zero(kind) ==
    CASE kind = "Bool"         -> "false"
      [] kind \in NumericKinds -> "0"
      [] OTHER                 -> ""

NumOf(s)  == CASE s = "7" -> 7 [] s = "3" -> 3 [] OTHER -> 0
StrLen(s) == CASE s = "" -> 0 [] s = "a@b" -> 3 [] OTHER -> 1

\* The kind's parser applied to a non-empty string.
Parse(kind, s) ==
    LET ok == CASE kind = "Bool"         -> s \in {"y", "false"}
                [] kind \in NumericKinds -> s \in {"7", "3", "0"}
                [] kind = "Email"        -> s = "a@b"
                [] OTHER                 -> TRUE
    IN  IF ok THEN [value |-> CASE kind = "Bool" /\ s = "y" -> "true"
                                [] kind = "Bool" /\ s # "y" -> "false"
                                [] OTHER                    -> s,
                    err |-> "nil"]
        ELSE [value |-> Zero(kind), err |-> "TypeMismatch"]

\* min <= v <= max, on the value of a number and on the length of a string.
InBounds(kind, sch, s) ==
    LET m == IF kind \in NumericKinds THEN NumOf(s) ELSE StrLen(s)
    IN  \/ kind = "Bool"
        \/ /\ (sch.min = NoBound \/ m >= sch.min)
           /\ (sch.max = NoBound \/ m <= sch.max)

Check(kind, sch, s) ==
    LET p == Parse(kind, s)
    IN  IF p.err # "nil" THEN p
        ELSE IF ~InBounds(kind, sch, s)
             THEN [value |-> Zero(kind), err |-> "OutOfRange"]
             ELSE p

\* A validator that substitutes the default before it looks at Required.
MutDefaultBeatsRequired(kind, sch, in) ==
    IF in # "" THEN Check(kind, sch, in)
    ELSE IF sch.Bydefault # "" THEN Check(kind, sch, sch.Bydefault)
         ELSE IF Required \in sch.modifier
              THEN [value |-> Zero(kind), err |-> "ErrRequired"]
              ELSE [value |-> Zero(kind), err |-> "nil"]

\* valid.String / Bool / Int64 / Uint64 / Float64 / Email (schema, input).
Validate(kind, sch, in) ==
    IF in # "" THEN Check(kind, sch, in)
    ELSE IF Required \in sch.modifier
         THEN [value |-> Zero(kind), err |-> "ErrRequired"]
         ELSE IF sch.Bydefault # "" THEN Check(kind, sch, sch.Bydefault)
              ELSE [value |-> Zero(kind), err |-> "nil"]

\* A choice reader that takes every parsed value for a member.
MutAnyChoice(choices, v) == TRUE

\* for _, v := range choices { if v == value { ... return value, nil } }
IsChoice(choices, v) == v \in choices

\* What a line is worth to the call c: its value, or the error that makes
\* the call ask again.
Verdict(c, sch, in) ==
    LET v == Validate(c.kind, sch, in)
    IN  IF c.fn = "Choice" /\ v.err = "nil" /\ ~IsChoice(Choices(c.kind), v.value)
        THEN [value |-> Zero(c.kind), err |-> "InvalidChoice"]
        ELSE v

\* A read loop with a retry limit of one: after one reported error it
\* returns whatever the validator said.
MutRetriesOnce(v) == v.err # "nil" /\ ~call.hadError

\* A read loop that returns whatever the validator said.
MutNeverRetries(v) == FALSE

\* if err != nil { ...; hadError = true; continue }
Retry(v) == v.err # "nil"

\* quest.clean(); the readers of package question reset nothing on return.
AfterReturn(sch) ==
    IF pkg = "quest" THEN [sch EXCEPT !.Bydefault = "", !.modifier = {}]
    ELSE sch

\* The call c returns (or panics, pan) having consumed the lines up to n.
Return(c, value, err, pan, n, cleaned) ==
    /\ qRet' = [fn |-> c.fn, kind |-> c.kind, value |-> value, err |-> err,
                panicked |-> pan, last |-> IF c.start > n THEN 0 ELSE n]
    /\ call' = IdleCall
    /\ qLast' = "Return"
    /\ schema' = IF cleaned THEN AfterReturn(schema) ELSE schema
    /\ qPrompt' = IF cleaned /\ pkg = "quest" THEN "" ELSE qPrompt
    /\ suffixAnsi' = IF cleaned /\ pkg = "quest" THEN 0 ELSE suffixAnsi
    /\ sliceCall' = IdleSlice
    /\ isSlice' = isSlice

QIdle == call = IdleCall /\ ~qRet.panicked

\* ANSI codes to set graphic mode: "\033[1m" and "\033[0m".
setBold == <<27, 91, 49, 109>>
setOff  == <<27, 91, 48, 109>>

\* The values by default are set to bold.
lenAnsi == Len(setBold) + Len(setOff)

\* newLine of package question for a reader of the kind: the extraChars it
\* hands to readline.NewLine, the ANSI styling bytes of the prompt it hands
\* over with it, the styling bytes it leaves in suffixPrompt, and the error
\* it returns instead when a boolean default does not parse.
NewLine(kind, sch, slc, sfx) ==
    IF slc \/ sch.Bydefault = ""
    THEN [extraChars |-> 0, ansi |-> 0, suffix |-> sfx, err |-> "nil"]
    ELSE IF kind # "Bool"
    THEN [extraChars |-> lenAnsi, ansi |-> lenAnsi, suffix |-> lenAnsi,
          err |-> "nil"]
    ELSE LET b == Parse("Bool", sch.Bydefault)
         IN  IF b.err # "nil"
             THEN [extraChars |-> lenAnsi, ansi |-> 0, suffix |-> sfx,
                   err |-> b.err]
             ELSE IF b.value = "true" \/ pkg # "part_000"
             THEN [extraChars |-> lenAnsi, ansi |-> lenAnsi,
                   suffix |-> lenAnsi, err |-> "nil"]
             ELSE [extraChars |-> lenAnsi, ansi |-> sfx + lenAnsi,
                   suffix |-> sfx + lenAnsi, err |-> "nil"]

\* newLine of package quest: the prompt carries defString, whose styling
\* bytes are sfx.
QuestNewLine(sch, slc, sfx) ==
    IF slc
    THEN [extraChars |-> 0, ansi |-> 0, suffix |-> sfx, err |-> "nil"]
    ELSE [extraChars |-> IF sch.Bydefault # "" THEN lenAnsi ELSE 0,
          ansi |-> sfx, suffix |-> sfx, err |-> "nil"]

\* readType / readChoice / Read of package quest up to newLine: defString is
\* set when there is a default.
QuestReadLine(sch, slc, sfx) ==
    QuestNewLine(sch, slc, IF sch.Bydefault # "" THEN lenAnsi ELSE sfx)

\* The line a reader of the kind creates before its first line.Read.
ReaderLine(kind, sch, slc, sfx) ==
    IF pkg = "quest" THEN QuestReadLine(sch, slc, sfx)
    ELSE NewLine(kind, sch, slc, sfx)

\* The code points of the strings handed to Prompt.
CodePoints(str) ==
    CASE str = "ok?"  -> <<111, 107, 63>>
      [] str = "name" -> <<110, 97, 109, 101>>
      [] OTHER        -> <<>>

\* The prefixPrompt arguments handed to NewCustom: "", " + " and "?"; the
\* strings handed to Prompt in specification SpecPrompt.
PrefixArgs  == {<<>>, PREFIX, <<63>>}
PromptTexts == {"ok?", "name", ""}

\* A constructor that keeps an empty prefixPrompt.
MutPrefixKeptEmpty(prefix) == prefix

\* if prefixPrompt == "" { prefixPrompt = _PREFIX }
NewCustomPrefix(prefix) == IF prefix = <<>> THEN PREFIX ELSE prefix

\* if fullPrompt[len(fullPrompt)-1] == '?' { fullPrompt += " " }
\* else { fullPrompt += ": " }
AddSpaces(fullPrompt) ==
    IF fullPrompt[Len(fullPrompt)] = 63 THEN fullPrompt \o <<32>>
    ELSE fullPrompt \o <<58, 32>>

\* The prompt newLine of package question builds, up to the spaces; the
\* index expression panics on an empty string.
FullPrompt(slc) ==
    LET fullPrompt == prefixPrompt \o CodePoints(qPrompt)
    IN  IF slc THEN [prompt |-> PREFIX_MULTI, panic |-> FALSE]
        ELSE IF fullPrompt = <<>> THEN [prompt |-> <<>>, panic |-> TRUE]
        ELSE [prompt |-> AddSpaces(fullPrompt), panic |-> FALSE]

\* The prompt newLine of package quest builds, without the defString it
\* puts before the spaces: strings.HasSuffix(prompt, "?") looks at the end
\* of defString when there is one (defString has styling bytes, dfl).
QuestPrompt(slc, dfl) ==
    LET p == prefixPrompt \o CodePoints(qPrompt)
    IN  IF slc THEN [prompt |-> PREFIX_MULTI, panic |-> FALSE]
        ELSE [prompt |-> IF dfl = 0 /\ p # <<>> /\ p[Len(p)] = 63
                         THEN p \o <<32>> ELSE p \o <<58, 32>>,
              panic |-> FALSE]

\* The prompt of the line a reader creates.
PromptLine(slc, dfl) ==
    IF pkg = "quest" THEN QuestPrompt(slc, dfl) ELSE FullPrompt(slc)

\* The configuration steps leave the slice flag and the prompt suffix alone.
Configured ==
    /\ sliceCall' = IdleSlice
    /\ shown' = <<>>
    /\ UNCHANGED <<isSlice, suffixAnsi>>

\* Prompt (NewPrompt in quest) starts the next question.
Prompt ==
    /\ QIdle
    /\ \E str \in Prompts : qPrompt' = str
    /\ schema' = IF pkg = "question"
                 THEN [schema EXCEPT !.Bydefault = "", !.modifier = {}]
                 ELSE schema
    /\ qLast' = "Prompt"
    /\ qRet' = NoRet
    /\ Configured
    /\ UNCHANGED <<pkg, call, log>>

Default ==
    /\ QIdle
    /\ \E d \in Defaults : schema' = [schema EXCEPT !.Bydefault = d]
    /\ qLast' = "Config"
    /\ qRet' = NoRet
    /\ Configured
    /\ UNCHANGED <<pkg, qPrompt, call, log>>

\* Default("false") before a boolean question.
DefaultBool ==
    /\ QIdle
    /\ \E d \in BoolDefaults : schema' = [schema EXCEPT !.Bydefault = d]
    /\ qLast' = "Config"
    /\ qRet' = NoRet
    /\ Configured
    /\ UNCHANGED <<pkg, qPrompt, call, log>>

Mod ==
    /\ QIdle
    /\ schema' = [schema EXCEPT !.modifier = {Required}]
    /\ qLast' = "Config"
    /\ qRet' = NoRet
    /\ Configured
    /\ UNCHANGED <<pkg, qPrompt, call, log>>

Min ==
    /\ QIdle
    /\ pkg # "quest"
    /\ schema' = [schema EXCEPT !.min = MinBound]
    /\ qLast' = "Config"
    /\ qRet' = NoRet
    /\ Configured
    /\ UNCHANGED <<pkg, qPrompt, call, log>>

Max ==
    /\ QIdle
    /\ pkg # "quest"
    /\ schema' = [schema EXCEPT !.max = MaxBound]
    /\ qLast' = "Config"
    /\ qRet' = NoRet
    /\ Configured
    /\ UNCHANGED <<pkg, qPrompt, call, log>>

Range ==
    /\ QIdle
    /\ pkg # "quest"
    /\ schema' = [schema EXCEPT !.min = MinBound, !.max = MaxBound]
    /\ qLast' = "Config"
    /\ qRet' = NoRet
    /\ Configured
    /\ UNCHANGED <<pkg, qPrompt, call, log>>

\* The run-time panic of an index expression, as the err of qRet.
IndexOutOfRange == "index out of range"

\* The readers each revision has.
HasReader(fn, kind) ==
    CASE fn = "Read"    -> kind \in Kinds
      [] fn = "Choice"  -> kind \in ChoiceKinds /\ pkg \in {"question", "quest"}
      [] fn = "Extra"   -> kind = "Email" /\ pkg = "question"
      [] fn = "ExtraFn" -> kind = "Email" /\ pkg = "question"

\* The start of a Read* / Choice* call, up to its first line.Read: newLine
\* (package question validates a boolean default there), readType (package
\* quest asserts that the default of ReadBool is a bool).
StartRead ==
    /\ QIdle
    /\ \E fn \in {"Read", "Choice", "Extra", "ExtraFn"}, kind \in Kinds \cup {"Email"} :
        /\ HasReader(fn, kind)
        /\ LET nl == ReaderLine(kind, schema, isSlice, suffixAnsi)
               pl == PromptLine(isSlice, nl.ansi)
               c == [fn |-> fn, kind |-> kind, hadError |-> FALSE,
                     start |-> Len(log) + 1,
                     extraChars |-> nl.extraChars, ansi |-> nl.ansi,
                     prompt |-> pl.prompt]
               d == schema.Bydefault
           IN  IF pl.panic
               THEN Return(c, Zero(kind), IndexOutOfRange, TRUE, Len(log), FALSE)
               ELSE IF pkg = "quest" /\ kind = "Bool" /\ d # ""
                  /\ Parse("Bool", d).err # "nil"
               THEN Return(c, Zero(kind), "nil", TRUE, Len(log), FALSE)
               ELSE IF nl.err # "nil"
               THEN Return(c, Zero(kind), nl.err, FALSE, Len(log), FALSE)
               ELSE /\ call' = c
                    /\ qLast' = "Start"
                    /\ qPrompt' = IF pkg = "part_000" THEN "" ELSE qPrompt
                    /\ qRet' = NoRet
                    /\ schema' = schema
                    /\ suffixAnsi' = nl.suffix
                    /\ sliceCall' = IdleSlice
                    /\ isSlice' = isSlice
    /\ shown' = <<>>
    /\ UNCHANGED <<pkg, log>>

\* The kinds Read*Slice (ReadMultipleString in quest) reads elements of.
SliceKinds == {"String"} \cup NumericKinds

\* A slice reader that puts each new element in front.
MutCollectInFront(values, v) == <<v>> \o values

\* values = append(values, v)
Collect(values, v) == Append(values, v)

\* A slice reader that breaks on the empty string only.
MutSentinelEmptyString(kind, v) == v = ""

\* if v == 0 { break } / if v == "" { break }
IsSentinel(kind, v) == v = Zero(kind)

\* The start of a Read*Slice / ReadMultipleString call up to the first
\* line.Read: newLine for the question, the slice flag, and the start of the
\* first element's reader.
StartSlice ==
    /\ QIdle
    /\ \E kind \in SliceKinds :
        /\ pkg = "quest" => kind = "String"
        /\ LET nl  == IF pkg = "quest"
                      THEN QuestNewLine(schema, isSlice, suffixAnsi)
                      ELSE NewLine(kind, schema, isSlice, suffixAnsi)
               pl  == PromptLine(isSlice, nl.ansi)
               el  == ReaderLine(kind, schema, TRUE, nl.suffix)
               c   == [fn |-> "Read", kind |-> kind, hadError |-> FALSE,
                       start |-> Len(log) + 1,
                       extraChars |-> el.extraChars, ansi |-> el.ansi,
                       prompt |-> PromptLine(TRUE, el.ansi).prompt]
           IN  IF pl.panic
               THEN Return(c, Zero(kind), IndexOutOfRange, TRUE, Len(log), FALSE)
               ELSE /\ sliceCall' = [status |-> "reading", kind |-> kind,
                                     values |-> <<>>,
                                     extraChars |-> nl.extraChars,
                                     ansi |-> nl.ansi, last |-> 0,
                                     prompt |-> pl.prompt]
                    /\ isSlice' = TRUE
                    /\ suffixAnsi' = el.suffix
                    /\ call' = c
                    /\ qPrompt' = IF pkg = "part_000" THEN "" ELSE qPrompt
                    /\ qLast' = "StartSlice"
                    /\ qRet' = NoRet
                    /\ schema' = schema
    /\ shown' = <<>>
    /\ UNCHANGED <<pkg, log>>

\* The loop of Read*Slice once the reader of an element has returned: the
\* error return (the slice flag stays set), the break on the sentinel, or
\* the append and the start of the next element's reader.
Element(c, value, err, pan, n) ==
    LET sch1 == AfterReturn(schema)
        sfx1 == IF pkg = "quest" THEN 0 ELSE suffixAnsi
        nl   == ReaderLine(c.kind, sch1, isSlice, sfx1)
    IN  /\ qRet' = [fn |-> c.fn, kind |-> c.kind, value |-> value,
                    err |-> err, panicked |-> pan, last |-> n]
        /\ schema' = sch1
        /\ qPrompt' = IF pkg = "quest" THEN "" ELSE qPrompt
        /\ IF err # "nil" \/ pan
           THEN /\ sliceCall' = [sliceCall EXCEPT !.status = "failed",
                                                  !.values = <<>>,
                                                  !.last = n]
                /\ call' = IdleCall
                /\ qLast' = "Return"
                /\ suffixAnsi' = sfx1
                /\ isSlice' = isSlice
           ELSE IF IsSentinel(c.kind, value)
           THEN /\ sliceCall' = [sliceCall EXCEPT !.status = "returned",
                                                  !.last = n]
                /\ call' = IdleCall
                /\ qLast' = "Return"
                /\ suffixAnsi' = sfx1
                /\ isSlice' = FALSE
           ELSE /\ sliceCall' = [sliceCall EXCEPT
                                   !.values = Collect(@, value)]
                /\ call' = [fn |-> "Read", kind |-> c.kind,
                            hadError |-> FALSE, start |-> n + 1,
                            extraChars |-> nl.extraChars, ansi |-> nl.ansi,
                            prompt |-> PromptLine(isSlice, nl.ansi).prompt]
                /\ qLast' = "Element"
                /\ suffixAnsi' = nl.suffix
                /\ isSlice' = isSlice

\* The call c returns to its caller: to the loop of a slice reader, or to
\* the program.
Returns(c, value, err, pan, n) ==
    IF sliceCall.status = "reading"
    THEN Element(c, value, err, pan, n)
    ELSE Return(c, value, err, pan, n, TRUE)

\* The terminal control sequences of package readline, by name, and the
\* two streams the readers write to.
CursorUp         == "CursorUp"
CursorDown       == "CursorDown"
DelLine_cursorUp == "DelLine_cursorUp"
Stderr == "os.Stderr"
Output == "term.Output"

\* One Write / Fprintf call: the stream and the parts of the text.
Write(to, text) == [to |-> to, text |-> text]

\* The message of a failed validation: fmt.Fprintf(os.Stderr, "%s%s",
\* q.prefixError, err) in package question, "%s it %s" for ErrRequired and
\* "%s %q %s" with the line typed for every other error in package quest.
Message(in, err) ==
    IF pkg # "quest" THEN <<"prefixError", err>>
    ELSE IF err = "ErrRequired" THEN <<"errPrefix", " it ", err>>
    ELSE <<"errPrefix", " ", "\"", in, "\"", " ", err>>

\* if err != nil { DelLine_CR; the message; CursorUp; hadError = true }
Display(in, err) ==
    <<Write(Stderr, <<DelLine_CR>>),
      Write(Stderr, Message(in, err)),
      Write(Output, <<CursorUp>>)>>

\* A read that erases the line beneath the prompt on every return.
MutEraseAlways(c) == <<Write(Stderr, <<DelLine_CR>>)>>

\* if hadError { os.Stderr.Write(readline.DelLine_CR) }
Erase(c) == IF c.hadError THEN <<Write(Stderr, <<DelLine_CR>>)>> ELSE <<>>

\* What the call c writes once line.Read has returned the line in with the
\* verdict v.  ChoiceInt / ChoiceFloat64 / ChoiceString of package question
\* run a reader that returns (erasing its own message) and then report
\* "invalid choice" themselves, or move over the list of choices.
Writes(c, in, v) ==
    IF in = ErrCtrlD \/ (c.fn = "ExtraFn" /\ v.err # "nil") THEN <<>>
    ELSE IF c.fn = "Choice" /\ pkg # "quest"
    THEN IF v.err = "InvalidChoice"
         THEN Erase(c) \o <<Write(Stderr, <<DelLine_CR>>),
                            Write(Stderr, <<"prefixError", v.err>>),
                            Write(Output, <<CursorUp>>)>>
         ELSE IF v.err # "nil" THEN Display(in, v.err)
         ELSE Erase(c) \o <<Write(Output, <<CursorDown>>),
                            Write(Output, <<DelLine_cursorUp>>)>>
    ELSE IF v.err # "nil" THEN Display(in, v.err)
    ELSE Erase(c)

\* An entry of the log once a later line has been read.
Forget(e) == [e EXCEPT !.line = "-", !.value = "-"]

\* line.Read returns in the call in progress.
ReadLine ==
    /\ call # IdleCall
    /\ ~qRet.panicked
    /\ Len(log) < MaxLines
    /\ \E in \in Items :
        LET v == IF in = ErrCtrlD THEN [value |-> "", err |-> ErrCtrlD]
                 ELSE Verdict(call, schema, in)
            n == Len(log) + 1
        IN  /\ log' = Append([k \in DOMAIN log |-> Forget(log[k])],
                              [start |-> call.start, err |-> v.err,
                               line |-> in, value |-> v.value])
            /\ shown' = Writes(call, in, v)
            /\ IF in = ErrCtrlD
               THEN IF pkg = "quest"
                    THEN Returns(call, "", ErrCtrlD, call.kind # "String", n)
                    ELSE Returns(call, Zero(call.kind), ErrCtrlD, FALSE, n)
               ELSE IF call.fn = "ExtraFn" /\ v.err # "nil"
                    THEN Returns(call, "", v.err, FALSE, n)
               ELSE IF Retry(v)
                    THEN /\ call' = [call EXCEPT !.hadError =
                                ~(pkg # "quest" /\ v.err = "InvalidChoice")]
                         /\ qLast' = "Retry"
                         /\ UNCHANGED <<schema, qPrompt, qRet, formVars>>
                    ELSE Returns(call, v.value, "nil", FALSE, n)
    /\ pkg' = pkg

InitRead ==
    /\ pkg \in {"question", "part_000", "quest"}
    /\ qPrompt = ""
    /\ schema = NewSchema
    /\ call = IdleCall
    /\ log = <<>>
    /\ qRet = NoRet
    /\ qLast = "New"
    /\ shown = <<>>
    /\ isSlice = FALSE
    /\ sliceCall = IdleSlice
    /\ suffixAnsi = 0
    /\ trueString = q_TRUE_STRING
    /\ falseString = q_FALSE_STRING
    /\ extraBool = <<>>
    /\ prefixPrompt = PREFIX
    /\ dev = CookedAttrs
    /\ lastState = dev
    /\ oldState = lastState
    /\ mode = {}
    /\ winsize = [Row |-> 0, Col |-> 0]
    /\ captured = dev
    /\ lastOp = "NewWithAll"
    /\ lastErr = FALSE
    /\ applied = FALSE
    /\ anyErr = FALSE
    /\ prevOp = "none"
    /\ prevApplied = FALSE
    /\ buf = <<>>
    /\ size = 0
    /\ gapStart = 0
    /\ gapEnd = -1
    /\ bufEnd = -1
    /\ cursor = 0
    /\ panicked = FALSE
    /\ gLastOp = "NewGapBuffer"
    /\ gLastRet = "none"
    /\ gArg = <<>>
    /\ refText = <<>>
    /\ refCursor = 0
    /\ handlers = <<>>
    /\ output = <<>>
    /\ exitStatus = NotExited
    /\ reading = FALSE
    /\ raced = FALSE
    /\ hLast = [i |-> 0, kind |-> "none", step |-> "none"]
    /\ input = <<>>
    /\ stream = <<>>
    /\ editLine = <<>>
    /\ fates = <<>>
    /\ events = <<>>

NextRead ==
    /\ \/ Prompt
       \/ Default
       \/ Mod
       \/ Min
       \/ Max
       \/ Range
       \/ StartRead
       \/ ReadLine
    /\ UNCHANGED <<termVars, gapVars, intrVars, byteVars, boolVars>>

\* The session of specification SpecSlice: the same Question, asked single
\* and slice questions with string and boolean defaults.
InitSlice ==
    /\ pkg \in {"question", "part_000", "quest"}
    /\ qPrompt = ""
    /\ schema = NewSchema
    /\ call = IdleCall
    /\ log = <<>>
    /\ qRet = NoRet
    /\ qLast = "New"
    /\ shown = <<>>
    /\ isSlice = FALSE
    /\ sliceCall = IdleSlice
    /\ suffixAnsi = 0
    /\ trueString = q_TRUE_STRING
    /\ falseString = q_FALSE_STRING
    /\ extraBool = <<>>
    /\ prefixPrompt = PREFIX
    /\ dev = CookedAttrs
    /\ lastState = dev
    /\ oldState = lastState
    /\ mode = {}
    /\ winsize = [Row |-> 0, Col |-> 0]
    /\ captured = dev
    /\ lastOp = "NewWithAll"
    /\ lastErr = FALSE
    /\ applied = FALSE
    /\ anyErr = FALSE
    /\ prevOp = "none"
    /\ prevApplied = FALSE
    /\ buf = <<>>
    /\ size = 0
    /\ gapStart = 0
    /\ gapEnd = -1
    /\ bufEnd = -1
    /\ cursor = 0
    /\ panicked = FALSE
    /\ gLastOp = "NewGapBuffer"
    /\ gLastRet = "none"
    /\ gArg = <<>>
    /\ refText = <<>>
    /\ refCursor = 0
    /\ handlers = <<>>
    /\ output = <<>>
    /\ exitStatus = NotExited
    /\ reading = FALSE
    /\ raced = FALSE
    /\ hLast = [i |-> 0, kind |-> "none", step |-> "none"]
    /\ input = <<>>
    /\ stream = <<>>
    /\ editLine = <<>>
    /\ fates = <<>>
    /\ events = <<>>

NextSlice ==
    /\ \/ Prompt
       \/ Default
       \/ DefaultBool
       \/ Mod
       \/ StartSlice
       \/ StartRead
       \/ ReadLine
    /\ UNCHANGED <<termVars, gapVars, intrVars, byteVars, boolVars>>

\* Prompt with every kind of text: ending in '?', not ending in '?', empty.
PromptText ==
    /\ QIdle
    /\ \E str \in PromptTexts : qPrompt' = str
    /\ schema' = IF pkg = "question"
                 THEN [schema EXCEPT !.Bydefault = "", !.modifier = {}]
                 ELSE schema
    /\ qLast' = "Prompt"
    /\ qRet' = NoRet
    /\ Configured
    /\ UNCHANGED <<pkg, call, log>>

\* The session of specification SpecPrompt: a Question of package question
\* built by NewCustom with an empty, the default or a custom prefixPrompt.
InitPrompt ==
    /\ pkg \in {"question", "part_000"}
    /\ qPrompt = ""
    /\ schema = NewSchema
    /\ call = IdleCall
    /\ log = <<>>
    /\ qRet = NoRet
    /\ qLast = "New"
    /\ shown = <<>>
    /\ isSlice = FALSE
    /\ sliceCall = IdleSlice
    /\ suffixAnsi = 0
    /\ trueString = q_TRUE_STRING
    /\ falseString = q_FALSE_STRING
    /\ extraBool = <<>>
    /\ \E prefix \in PrefixArgs : prefixPrompt = NewCustomPrefix(prefix)
    /\ dev = CookedAttrs
    /\ lastState = dev
    /\ oldState = lastState
    /\ mode = {}
    /\ winsize = [Row |-> 0, Col |-> 0]
    /\ captured = dev
    /\ lastOp = "NewWithAll"
    /\ lastErr = FALSE
    /\ applied = FALSE
    /\ anyErr = FALSE
    /\ prevOp = "none"
    /\ prevApplied = FALSE
    /\ buf = <<>>
    /\ size = 0
    /\ gapStart = 0
    /\ gapEnd = -1
    /\ bufEnd = -1
    /\ cursor = 0
    /\ panicked = FALSE
    /\ gLastOp = "NewGapBuffer"
    /\ gLastRet = "none"
    /\ gArg = <<>>
    /\ refText = <<>>
    /\ refCursor = 0
    /\ handlers = <<>>
    /\ output = <<>>
    /\ exitStatus = NotExited
    /\ reading = FALSE
    /\ raced = FALSE
    /\ hLast = [i |-> 0, kind |-> "none", step |-> "none"]
    /\ input = <<>>
    /\ stream = <<>>
    /\ editLine = <<>>
    /\ fates = <<>>
    /\ events = <<>>

NextPrompt ==
    /\ \/ PromptText
       \/ Default
       \/ StartSlice
       \/ StartRead
       \/ ReadLine
    /\ UNCHANGED <<termVars, gapVars, intrVars, byteVars, boolVars>>

----------------------------------------------------------------------------
(***************************************************************************)
(* quest.New and ReadBool with the caller's boolean strings.  A string is  *)
(* the sequence of its code points.                                        *)
(***************************************************************************)
WordOui      == <<111, 117, 105>>      \* "oui"
WordOUI      == <<79, 85, 73>>         \* "OUI"
WordOuiTitle == <<79, 117, 105>>       \* "Oui"
WordMixed    == <<111, 85, 105>>       \* "oUi"
WordNon      == <<110, 111, 110>>      \* "non"
WordNON      == <<78, 79, 78>>         \* "NON"
WordNonTitle == <<78, 111, 110>>       \* "Non"
WordJa       == <<106, 97>>           \* "ja"

\* The (trueString, falseString) pairs handed to New.
BoolStrings == {<<q_TRUE_STRING, q_FALSE_STRING>>, <<WordOui, WordNon>>,
                <<WordMixed, q_FALSE_STRING>>}

\* The non-empty lines typed to ReadBool.
BoolLines == {WordOui, WordOuiTitle, WordMixed, WordNon, WordJa, q_TRUE_STRING}

\* The strings validate.Atob takes for true and for false:
\*   1, t, T, TRUE, true, True, y, Y, yes, YES, Yes
\*   0, f, F, FALSE, false, False, n, N, no, NO, No
AtobTrue ==
    {<<49>>,
     <<116>>,
     <<84>>,
     <<84, 82, 85, 69>>,
     <<116, 114, 117, 101>>,
     <<84, 114, 117, 101>>,
     <<121>>,
     <<89>>,
     <<121, 101, 115>>,
     <<89, 69, 83>>,
     <<89, 101, 115>>}
AtobFalse ==
    {<<48>>,
     <<102>>,
     <<70>>,
     <<70, 65, 76, 83, 69>>,
     <<102, 97, 108, 115, 101>>,
     <<70, 97, 108, 115, 101>>,
     <<110>>,
     <<78>>,
     <<110, 111>>,
     <<78, 79>>,
     <<78, 111>>}

IsUpper(c) == c \in 65..90
IsLower(c) == c \in 97..122

\* strings.ToLower, strings.ToUpper and strings.Title on a word of letters.
ToLower(w) == [i \in DOMAIN w |-> IF IsUpper(w[i]) THEN w[i] + 32 ELSE w[i]]
ToUpper(w) == [i \in DOMAIN w |-> IF IsLower(w[i]) THEN w[i] - 32 ELSE w[i]]
Title(w)   == [i \in DOMAIN w |->
                 IF i = 1 /\ IsLower(w[i]) THEN w[i] - 32 ELSE w[i]]

\* A constructor that registers the forms of every string.
MutAtobAlwaysFails(str) == TRUE

\* _, err = val.Atob(str); err != nil
AtobFails(str) == str \notin AtobTrue \cup AtobFalse

\* The map extraBool that New builds.
NewExtraBool(t, f) ==
    LET tForms == {ToLower(t), ToUpper(t), Title(t)}
        fForms == {ToLower(f), ToUpper(f), Title(f)}
        m1 == IF AtobFails(t) THEN [w \in tForms |-> TRUE]
              ELSE [w \in {} |-> TRUE]
    IN  IF AtobFails(f)
        THEN [w \in DOMAIN m1 \cup fForms |->
                 IF w \in fForms THEN FALSE ELSE m1[w]]
        ELSE m1

\* The validator of ReadBool after valida.SetBoolString(extra): a line is a
\* boolean when it is one of the extra strings or one of Atob's.
AtobExtra(extra, w) ==
    CASE w \in DOMAIN extra -> [value |-> IF extra[w] THEN "true" ELSE "false",
                                err |-> "nil"]
      [] w \in AtobTrue     -> [value |-> "true", err |-> "nil"]
      [] w \in AtobFalse    -> [value |-> "false", err |-> "nil"]
      [] OTHER              -> [value |-> "false", err |-> "TypeMismatch"]

\* valida.Get(input) for a boolean question.
GetBool(sch, extra, w) ==
    IF w # <<>> THEN AtobExtra(extra, w)
    ELSE IF Required \in sch.modifier
         THEN [value |-> "false", err |-> "ErrRequired"]
         ELSE [value |-> "false", err |-> "nil"]

\* ReadBool of package quest up to its first line.Read.
ReadBool ==
    /\ QIdle
    /\ pkg = "quest"
    /\ LET nl == ReaderLine("Bool", schema, isSlice, suffixAnsi)
       IN  /\ call' = [fn |-> "Read", kind |-> "Bool", hadError |-> FALSE,
                       start |-> Len(log) + 1,
                       extraChars |-> nl.extraChars, ansi |-> nl.ansi,
                       prompt |-> PromptLine(isSlice, nl.ansi).prompt]
           /\ suffixAnsi' = nl.suffix
    /\ qLast' = "Start"
    /\ qRet' = NoRet
    /\ shown' = <<>>
    /\ sliceCall' = IdleSlice
    /\ UNCHANGED <<pkg, qPrompt, schema, log, isSlice>>

\* line.Read returns inside ReadBool: a word, an empty line, or ErrCtrlD
\* when Ctrl-D was typed (ReadBool then asserts value.(bool) on the string
\* read returned).
ReadBoolLine ==
    /\ call # IdleCall
    /\ ~qRet.panicked
    /\ Len(log) < MaxLines
    /\ \E in \in BoolLines \cup {<<>>, <<CtrlDByte>>} :
        LET v == IF in = <<CtrlDByte>> THEN [value |-> "", err |-> ErrCtrlD]
                 ELSE GetBool(schema, extraBool, in)
            n == Len(log) + 1
        IN  /\ log' = Append(log, [start |-> call.start, err |-> v.err,
                                   line |-> in, value |-> v.value])
            /\ shown' = IF in = <<CtrlDByte>> THEN <<>>
                        ELSE IF v.err # "nil" THEN Display(in, v.err)
                        ELSE Erase(call)
            /\ IF in = <<CtrlDByte>>
               THEN Return(call, "", ErrCtrlD, TRUE, n, TRUE)
               ELSE IF Retry(v)
                    THEN /\ call' = [call EXCEPT !.hadError = TRUE]
                         /\ qLast' = "Retry"
                         /\ UNCHANGED <<schema, qPrompt, qRet, formVars>>
                    ELSE Return(call, v.value, "nil", FALSE, n, TRUE)
    /\ pkg' = pkg

\* New(prefix, errPrefix, trueString, falseString) of package quest.
InitBool ==
    /\ pkg = "quest"
    /\ qPrompt = ""
    /\ schema = NewSchema
    /\ call = IdleCall
    /\ log = <<>>
    /\ qRet = NoRet
    /\ qLast = "New"
    /\ shown = <<>>
    /\ isSlice = FALSE
    /\ sliceCall = IdleSlice
    /\ suffixAnsi = 0
    /\ \E strs \in BoolStrings :
        /\ trueString = strs[1]
        /\ falseString = strs[2]
        /\ extraBool = NewExtraBool(strs[1], strs[2])
    /\ prefixPrompt = PREFIX
    /\ dev = CookedAttrs
    /\ lastState = dev
    /\ oldState = lastState
    /\ mode = {}
    /\ winsize = [Row |-> 0, Col |-> 0]
    /\ captured = dev
    /\ lastOp = "NewWithAll"
    /\ lastErr = FALSE
    /\ applied = FALSE
    /\ anyErr = FALSE
    /\ prevOp = "none"
    /\ prevApplied = FALSE
    /\ buf = <<>>
    /\ size = 0
    /\ gapStart = 0
    /\ gapEnd = -1
    /\ bufEnd = -1
    /\ cursor = 0
    /\ panicked = FALSE
    /\ gLastOp = "NewGapBuffer"
    /\ gLastRet = "none"
    /\ gArg = <<>>
    /\ refText = <<>>
    /\ refCursor = 0
    /\ handlers = <<>>
    /\ output = <<>>
    /\ exitStatus = NotExited
    /\ reading = FALSE
    /\ raced = FALSE
    /\ hLast = [i |-> 0, kind |-> "none", step |-> "none"]
    /\ input = <<>>
    /\ stream = <<>>
    /\ editLine = <<>>
    /\ fates = <<>>
    /\ events = <<>>

NextBool ==
    /\ \/ Prompt
       \/ Mod
       \/ ReadBool
       \/ ReadBoolLine
    /\ UNCHANGED <<termVars, gapVars, intrVars, byteVars, boolVars>>

----------------------------------------------------------------------------
SpecTerm == InitTerm /\ [][NextTerm]_vars
SpecGap  == InitGap /\ [][NextGap]_vars
SpecIntr == InitIntr /\ [][NextIntr]_vars
SpecBytes == InitBytes /\ [][NextBytes]_vars
SpecRead == InitRead /\ [][NextRead]_vars
SpecSlice == InitSlice /\ [][NextSlice]_vars
SpecBool  == InitBool /\ [][NextBool]_vars
SpecPrompt == InitPrompt /\ [][NextPrompt]_vars

----------------------------------------------------------------------------
(***************************************************************************)
(* Terminal: properties, checked under SpecTerm.                           *)
(***************************************************************************)

\* C1: after only successful calls, a Restore() that returns nil leaves the
\* device attributes and lastState equal to the attributes NewWithAll
\* captured.
C1_RestoreReverts ==
    (lastOp = "Restore" /\ ~lastErr /\ ~anyErr)
        => (dev = captured /\ lastState = captured)

\* The flag bits and control characters RawMode names.
RawIflag == BRKINT \cup IGNBRK \cup ICRNL \cup INLCR \cup IGNCR \cup ISTRIP \cup
            IXON \cup PARMRK
RawOflag == OPOST
RawLflag == ECHO \cup ECHONL \cup ICANON \cup IEXTEN \cup ISIG
RawCflag == CSIZE \cup PARENB \cup CS8
RawCc    == {"VMIN", "VTIME"}

\* What a second consecutive Restore() must do: apply nothing, return nil,
\* leave mode, lastState and oldState alone.
SecondRestoreIsNoOp ==
    /\ ~applied'
    /\ ~lastErr'
    /\ dev' = dev
    /\ mode' = mode
    /\ lastState' = lastState
    /\ oldState' = oldState

C31_FailedRestoreStaysPending ==
    [][/\ (lastOp' = "Restore" /\ lastErr')
            => /\ mode' = mode
               /\ mode' # {}
               /\ lastState' = lastState
               /\ oldState' = oldState
       /\ (lastOp = "Restore" /\ lastErr /\ lastOp' = "Restore")
            => /\ lastErr' \/ applied'
               /\ applied' => (dev' = oldState /\ mode' = {})]_vars

\* A Restore() that failed in sys.Setattr, followed by a Restore() that
\* applied the original state.
C31_Witness ==
    /\ prevOp = "Restore"
    /\ ~prevApplied
    /\ lastOp = "Restore"
    /\ applied
    /\ ~lastErr
    /\ mode = {}
    /\ dev = captured

\* C3: oldState always equals the attributes captured at construction,
\* whatever calls were made and whether they failed.
C3_OldStateFrozen == oldState = captured

\* Mode calls, a failing one among them, have changed the working snapshot.
C3_Witness ==
    /\ oldState = captured
    /\ lastState # oldState
    /\ dev # oldState
    /\ mode # {}
    /\ anyErr

\* C4: a successful RawMode() leaves the device with ICANON, ECHO, ECHONL,
\* ISIG, IEXTEN and OPOST clear, VMIN = 1 and VTIME = 0, every flag bit and
\* control character RawMode does not name as it was before the call, and
\* the RawMode bit set in mode.
C4_RawModeEffect ==
    [][(lastOp' = "RawMode" /\ ~lastErr') =>
          /\ dev'.Lflag \cap (ICANON \cup ECHO \cup ECHONL \cup ISIG \cup IEXTEN) = {}
          /\ dev'.Oflag \cap OPOST = {}
          /\ dev'.Cc["VMIN"] = 1
          /\ dev'.Cc["VTIME"] = 0
          /\ dev'.Iflag \ RawIflag = dev.Iflag \ RawIflag
          /\ dev'.Oflag \ RawOflag = dev.Oflag \ RawOflag
          /\ dev'.Lflag \ RawLflag = dev.Lflag \ RawLflag
          /\ dev'.Cflag \ RawCflag = dev.Cflag \ RawCflag
          /\ \A i \in CcIndex \ RawCc : dev'.Cc[i] = dev.Cc[i]
          /\ RawModeBit \in mode']_vars

\* RawMode() has succeeded on a cooked terminal: the device differs from the
\* captured attributes and still has the flags RawMode does not name.
C4_Witness ==
    /\ lastOp = "RawMode"
    /\ ~lastErr
    /\ RawModeBit \in mode
    /\ captured = CookedAttrs
    /\ dev # captured
    /\ ECHOE \subseteq dev.Lflag
    /\ ONLCR \subseteq dev.Oflag

\* The name the history variables give to a call EchoMode(b).
EchoModeCall(b) == IF b THEN "EchoMode(true)" ELSE "EchoMode(false)"

\* C29: EchoMode(b) changes only echo: the ECHO flag of lastState is set for
\* b = true and cleared for b = false, every other flag and control
\* character of lastState, every other bit of mode and oldState are as
\* before the call, and when the call succeeds the device has lastState and
\* the EchoMode bit of mode is set for b = true and cleared for b = false.
C29_EchoModeChangesOnlyEcho ==
    [][\A b \in BOOLEAN :
         lastOp' = EchoModeCall(b) =>
           /\ (ECHO \subseteq lastState'.Lflag) = b
           /\ (lastState'.Lflag \cap ECHO = {}) = ~b
           /\ lastState'.Lflag \ ECHO = lastState.Lflag \ ECHO
           /\ lastState'.Iflag = lastState.Iflag
           /\ lastState'.Oflag = lastState.Oflag
           /\ lastState'.Cflag = lastState.Cflag
           /\ lastState'.Cc = lastState.Cc
           /\ oldState' = oldState
           /\ mode' \ {EchoModeBit} = mode \ {EchoModeBit}
           /\ ~lastErr' => /\ dev' = lastState'
                           /\ (EchoModeBit \in mode') = b]_vars

\* EchoMode(false) has succeeded on a terminal in raw mode whose ECHOE flag
\* is set: another mode bit and another echo flag are there to be kept.
C29_Witness ==
    /\ lastOp = EchoModeCall(FALSE)
    /\ ~lastErr
    /\ RawModeBit \in mode
    /\ EchoModeBit \notin mode
    /\ dev.Lflag \cap ECHO = {}
    /\ ECHOE \subseteq dev.Lflag
    /\ oldState = captured

\* C30: a failed mode transition changes nothing: when RawMode, EchoMode,
\* CharMode or SetMode returns an error, mode and lastState are as before
\* the call.
C30_FailedTransitionChangesNothing ==
    [][(lastErr' /\ lastOp' \in {"RawMode", "CharMode", "SetMode",
                                  EchoModeCall(TRUE), EchoModeCall(FALSE)}) =>
          /\ mode' = mode
          /\ lastState' = lastState]_vars

----------------------------------------------------------------------------
(***************************************************************************)
(* GapBuffer: properties, checked under SpecGap.                           *)
(***************************************************************************)

\* C5: after every sequence of InsertChar / NextChar / PrevChar calls the
\* text of the gap buffer equals the text of the reference sequence driven
\* by the same calls.
C5_RefEquivalence == ~panicked => LogicalText(GB) = refText

\* C6: gapStart <= gapEnd after NewGapBuffer (any length) and after every
\* call.
C6_GapOrdered == gapStart <= gapEnd

\* C7: 0 <= gapStart and gapEnd <= bufEnd after NewGapBuffer and after every
\* completed call.
C7_GapInsideArray == ~panicked => (0 <= gapStart /\ gapEnd <= bufEnd)

\* C8: cursor equals gapStart in every state from NewGapBuffer onward.
C8_CursorIsGapStart == ~panicked => cursor = gapStart

\* C9: InsertChar with room in the gap stores the rune at the cursor and
\* advances cursor and gapStart by one; with the gap exhausted
\* (gapStart = gapEnd) it returns an error and changes nothing; it never
\* indexes outside buf.
C9_InsertCharConsumesGap ==
    [][(gLastOp' = "InsertChar") =>
          IF gapStart = gapEnd
          THEN /\ gLastRet' = "err"
               /\ UNCHANGED <<buf, size, gapStart, gapEnd, bufEnd, cursor>>
          ELSE /\ gLastRet' = "nil"
               /\ buf' = [buf EXCEPT ![cursor] = gArg'[1]]
               /\ cursor' = cursor + 1
               /\ gapStart' = gapStart + 1
               /\ gapEnd' = gapEnd]_vars

\* C10: NextWord and PrevWord stop at the start / end of the buffer without
\* indexing outside buf.
C10_WordMovesInBounds ==
    (gLastOp \in {"NextWord", "PrevWord"}) => gLastRet # "panic"

\* C26: a NextChar that returns true copies buf[gapEnd+1] into buf[gapStart],
\* zeroes buf[gapEnd+1] and advances cursor, gapStart and gapEnd by one;
\* PrevChar followed by NextChar, and NextChar followed by PrevChar, when
\* both return true, leave cursor, gapStart, gapEnd and every cell of buf as
\* they were.
C26_NextCharPrevCharInverse ==
    ~panicked =>
      LET n == NextCharOp(GB)
          p == PrevCharOp(GB)
      IN  /\ n.ok =>
                n.g = [GB EXCEPT !.buf = [[@ EXCEPT ![gapStart] = buf[gapEnd + 1]]
                                             EXCEPT ![gapEnd + 1] = 0],
                                 !.cursor = @ + 1,
                                 !.gapStart = @ + 1,
                                 !.gapEnd = @ + 1]
          /\ (p.ok /\ NextCharOp(p.g).ok) => NextCharOp(p.g).g = GB
          /\ (n.ok /\ PrevCharOp(n.g).ok) => PrevCharOp(n.g).g = GB

\* C27: PrevChar with the cursor at 0, and NextChar with no text after the
\* cursor, return false and change nothing; a call of either that returns
\* true moved the cursor by exactly one; neither indexes outside buf.
C27_CursorMovesBounded ==
    [][(gLastOp' \in {"NextChar", "PrevChar"}) =>
          /\ gLastRet' # "panic"
          /\ (gLastOp' = "PrevChar" /\ cursor = 0) => gLastRet' = "false"
          /\ (gLastOp' = "NextChar" /\ refCursor = Len(refText)) =>
                 gLastRet' = "false"
          /\ gLastRet' = "false" =>
                 UNCHANGED <<buf, size, gapStart, gapEnd, bufEnd, cursor>>
          /\ gLastRet' = "true" =>
                 cursor' = IF gLastOp' = "NextChar" THEN cursor + 1
                                                   ELSE cursor - 1]_vars

\* The number of runes inserted so far: what the reference text has gained
\* over the text NewGapBuffer found in a slice of this length.
Inserted == Len(refText) - Len(LogicalText(NewGapBuffer(buf)))

\* C28: size equals the number of runes inserted so far.
C28_SizeCountsInserted == ~panicked => size = Inserted


----------------------------------------------------------------------------
(***************************************************************************)
(* Claims about the interrupt handlers (specification SpecIntr).           *)
(***************************************************************************)

\* C14: when the process has exited through an interrupt handler, the
\* terminal has its original attributes and no mode bit set, and the handler
\* that exited had written the erase-line sequence before.
C14_RestoredBeforeExit ==
    exitStatus # NotExited =>
        /\ dev = captured
        /\ mode = {}
        /\ \A i \in DOMAIN handlers : handlers[i].pc = "done" => handlers[i].wrote

\* C15: at most one goroutine is waiting to receive a given event type.
C15_OneReceiverPerEvent ==
    \A ev \in {"CtrlC", "CtrlD"} : Cardinality(Waiting(ev)) <= 1

\* C16: a CTRL-C received by the listener of NewCustom does not end the
\* process and leaves the listener waiting on both channels; after a CTRL-D
\* it writes the erase-line sequence and then exits with status 2, so a
\* process whose only handlers are listeners exits with status 2 or not at all.
C16_ListenerCtrlCThenCtrlD ==
    /\ (hLast.kind = "Listener" /\ hLast.step = "recvC") =>
            /\ exitStatus = NotExited
            /\ handlers[hLast.i].pc = "wait"
            /\ Receives(handlers[hLast.i].kind) = {"CtrlC", "CtrlD"}
    /\ (hLast.kind = "Listener" /\ hLast.step = "recvD") =>
            handlers[hLast.i].pc = "write"
    /\ \A i \in DOMAIN handlers :
            handlers[i].kind = "Listener" =>
                /\ handlers[i].pc \in {"wait", "write", "exit", "done"}
                /\ handlers[i].pc = "exit" =>
                        handlers[i].wrote /\ DelLine_CR \in RangeOf(output)
                /\ handlers[i].pc = "done" =>
                        handlers[i].wrote /\ exitStatus = ListenerStatus
    /\ (\A i \in DOMAIN handlers : handlers[i].kind = "Listener") =>
            exitStatus \in {NotExited, ListenerStatus}

\* A listener that received a CTRL-C earlier has exited the process with
\* status 2 after a CTRL-D.
C16_Witness ==
    \E i \in DOMAIN handlers :
        /\ handlers[i].kind = "Listener"
        /\ handlers[i].gotC
        /\ handlers[i].pc = "done"
        /\ exitStatus = ListenerStatus

\* C17: no mode call of the main flow runs while a handler goroutine is
\* inside Terminal.Restore, and a process that exits through ExitAtCtrlC's
\* handler, with no Setattr failure, leaves the original attributes.
C17_HandlerAndMainFlowDisjoint ==
    /\ ~raced
    /\ (/\ exitStatus # NotExited
        /\ hLast.kind = "ExitAtCtrlC"
        /\ ~handlers[hLast.i].err
        /\ ~anyErr) => dev = captured


----------------------------------------------------------------------------
(***************************************************************************)
(* Claim about the byte stream (specification SpecBytes).                  *)
(***************************************************************************)

\* C18: the consumed bytes are exactly the typed ones, in order, none
\* dropped; a byte is raised as an interrupt event iff it is 0x03 or 0x04,
\* and then it is received by exactly one goroutine and never inserted into
\* the edited line; every other byte is inserted or interpreted by the editor.
C18_SingleConsumer ==
    /\ [k \in DOMAIN fates |-> fates[k].byte] \o stream = input
    /\ \A k \in DOMAIN fates :
            /\ fates[k].fate = "event" <=> fates[k].byte \in {CtrlCByte, CtrlDByte}
            /\ fates[k].fate \in {"event", "insert", "confirm", "ignore"}
    /\ Len(events) = Cardinality({k \in DOMAIN fates : fates[k].fate = "event"})
    /\ \A k \in DOMAIN events : events[k].to \in DOMAIN handlers
    /\ \A k \in DOMAIN editLine : editLine[k] \notin {CtrlCByte, CtrlDByte}

\* A letter was inserted, then a CTRL-C was raised, then a letter inserted.
C18_Witness ==
    /\ Len(fates) = 3
    /\ fates[1].fate = "insert"
    /\ fates[2].byte = CtrlCByte
    /\ fates[3].fate = "insert"
    /\ Len(events) = 1


----------------------------------------------------------------------------
(***************************************************************************)
(* Claims about the readers (specification SpecRead).                      *)
(***************************************************************************)

\* The call that read line k reads line k + 1 too.
AsksAgain(k) ==
    IF k < Len(log) THEN log[k + 1].start = log[k].start
    ELSE call # IdleCall /\ call.start = log[k].start

\* Line k is the last line of the call that read it.
LastOfItsCall(k) ==
    IF k < Len(log) THEN log[k + 1].start = k + 1
    ELSE call = IdleCall \/ call.start = k + 1

\* C11: no reader returns a validator's error, and a line the validator
\* rejected is followed by another read of the same call.
C11_ValidatorErrorsAbsorbed ==
    /\ qRet.err \notin ValidatorErrors
    /\ \A k \in DOMAIN log : log[k].err \in ValidatorErrors => AsksAgain(k)

\* C12: when line.Read returns an error the call returns at once, with that
\* error and the zero value, and does not panic.
C12_ReadErrorsEscape ==
    /\ \A k \in DOMAIN log : log[k].err = ErrCtrlD => LastOfItsCall(k)
    /\ (qRet.last > 0 /\ log[qRet.last].err = ErrCtrlD) =>
            /\ ~qRet.panicked
            /\ qRet.err = ErrCtrlD
            /\ qRet.value = Zero(qRet.kind)

\* C13: when the next question is started (Prompt in package question, the
\* return of a reader in package quest) the default value, the modifier
\* flags and the bounds are those of a new schema.
C13_ConstraintsCleared ==
    (\/ pkg # "quest" /\ qLast = "Prompt"
     \/ pkg = "quest" /\ qLast = "Return" /\ ~qRet.panicked) =>
        schema = NewSchema

\* C19: the lines are consumed in order, each by one call; a call reads
\* again exactly while its lines are rejected, so no line is consumed by a
\* call after its first valid line, and a call that returns a value returns
\* the value of the last line read, which is its first valid one.
C19_AnswersInOrder ==
    /\ \A k \in DOMAIN log :
            /\ log[k].start \in 1..k
            /\ k > 1 => log[k].start \in {log[k - 1].start, k}
            /\ log[k].err = "nil" => LastOfItsCall(k)
    /\ call # IdleCall =>
            /\ call.start \in 1..(Len(log) + 1)
            /\ call.start <= Len(log) =>
                    /\ log[Len(log)].start = call.start
                    /\ log[Len(log)].err \in ValidatorErrors
    /\ (qRet.fn # "none" /\ qRet.err = "nil" /\ ~qRet.panicked) =>
            /\ qRet.last = Len(log)
            /\ qRet.last > 0
            /\ log[qRet.last].err = "nil"
            /\ qRet.value = log[qRet.last].value
            /\ \A j \in 1..(qRet.last - 1) :
                    log[j].start = log[qRet.last].start =>
                        log[j].err \in ValidatorErrors

\* A first question took a rejected line and then a valid one, and the
\* second question returned the value of the third line.
C19_Witness ==
    /\ Len(log) = 3
    /\ log[1].start = 1 /\ log[1].err \in ValidatorErrors
    /\ log[2].start = 1 /\ log[2].err = "nil"
    /\ log[3].start = 3 /\ log[3].err = "nil"
    /\ qRet.last = 3
    /\ qRet.err = "nil"
    /\ qRet.value = log[3].value

\* C20: a choice reader returns (v, nil) only for a member v of choices; a
\* parsed value that is not a member makes the same question ask again; the
\* only error ChoiceInt / ChoiceFloat64 / ChoiceString return is a read error.
C20_ChoiceReturnsMember ==
    /\ (qRet.fn = "Choice" /\ qRet.err = "nil" /\ ~qRet.panicked) =>
            qRet.value \in Choices(qRet.kind)
    /\ (qRet.fn = "Choice" /\ pkg = "question") =>
            /\ qRet.err \in {"nil", ErrCtrlD}
            /\ qRet.err = ErrCtrlD =>
                    qRet.last > 0 /\ log[qRet.last].err = ErrCtrlD
    /\ \A k \in DOMAIN log : log[k].err = "InvalidChoice" =>
            /\ AsksAgain(k)
            /\ k = Len(log) => call.fn = "Choice"

\* ChoiceInt returned a member after a parsed answer that was not one.
C20_Witness ==
    /\ pkg = "question"
    /\ qRet.fn = "Choice"
    /\ qRet.kind = "Int64"
    /\ qRet.err = "nil"
    /\ qRet.last >= 2
    /\ log[qRet.last - 1].err = "InvalidChoice"
    /\ log[qRet.last - 1].start = log[qRet.last].start
    /\ qRet.value \in Choices("Int64")

\* The value a reader of the kind returns for a valid line s.
Typed(kind, s) == IF kind = "Bool" THEN "true" ELSE s

ReadFailure(e) ==
    /\ e.err \in ValidatorErrors
    /\ ~(pkg # "quest" /\ e.err = "InvalidChoice")

\* The read in progress has displayed a failure: it displayed one for the
\* line before, since it returns on the first line it accepts.
FailureShown ==
    /\ Len(log) > 0
    /\ log[Len(log)].start = call.start
    /\ ReadFailure(log[Len(log)])

\* How many of the writes erase the line.
Erasures(ws) ==
    Cardinality({k \in DOMAIN ws : ws[k] = Write(Stderr, <<DelLine_CR>>)})

----------------------------------------------------------------------------
(***************************************************************************)
(* Claims about slices and prompts (specification SpecSlice).              *)
(***************************************************************************)

C32_NumericSliceStopsAtZero ==
    [][/\ (/\ sliceCall.status = "reading"
           /\ sliceCall.kind \in NumericKinds
           /\ Len(log') = Len(log) + 1) =>
             LET e == log'[Len(log')]
             IN  /\ (e.err = "nil" /\ e.value = "0") =>
                       /\ sliceCall'.status = "returned"
                       /\ sliceCall'.values = sliceCall.values
                       /\ sliceCall'.last = Len(log')
                       /\ call' = IdleCall
                 /\ (e.err = "nil" /\ e.value # "0") =>
                       /\ sliceCall'.status = "reading"
                       /\ sliceCall'.values = Append(sliceCall.values, e.value)
       /\ (sliceCall'.status = "returned" /\ sliceCall'.kind \in NumericKinds) =>
             /\ Len(log') = sliceCall'.last
             /\ log'[Len(log')].value = "0"
       /\ sliceCall'.kind \in NumericKinds =>
             \A k \in DOMAIN sliceCall'.values : sliceCall'.values[k] # "0"]_vars

\* ReadInt64Slice was answered "7", "3" and "0", and returned the first two
\* in that order.
C32_Witness ==
    /\ sliceCall.status = "returned"
    /\ sliceCall.kind \in NumericKinds
    /\ sliceCall.values = <<"7", "3">>
    /\ Len(log) = 3
    /\ log[3].line = "0"
    /\ log[3].start = 3
    /\ call = IdleCall

\* C33: while ReadStringSlice (ReadMultipleString) is reading, an empty
\* line ends the call, whatever the schema of the question says (Required,
\* a default): the call returns the elements collected so far.
C33_EmptyLineEndsSlice ==
    [][(/\ sliceCall.status = "reading"
        /\ sliceCall.kind = "String"
        /\ Len(log') = Len(log) + 1
        /\ log'[Len(log')].line = "") =>
            /\ sliceCall'.status = "returned"
            /\ sliceCall'.values = sliceCall.values
            /\ call' = IdleCall]_vars

\* C34: the slice flag (schema.IsSlice, isSlice, isMultiple) is set only
\* while a Read*Slice / ReadMultipleString call is in progress: once the
\* call has returned, with a value or with an error, the flag is false.
C34_SliceFlagScoped == isSlice => sliceCall.status = "reading"

\* C35: when a line has been read and the call goes on reading, to ask
\* again after a failed validation or a rejected choice or to read the next
\* element of a slice, the schema of the question (modifier, bounds,
\* default) and the kind read are what they were before the line.
C35_SchemaKeptWhileReading ==
    [][(/\ call # IdleCall
        /\ call' # IdleCall
        /\ Len(log') = Len(log) + 1) =>
            /\ schema' = schema
            /\ call'.kind = call.kind
            /\ call'.fn = call.fn]_vars

\* C25: the extraChars handed to readline.NewLine equals the number of ANSI
\* styling bytes of the prompt handed over with it, lenAnsi or 0, for the
\* line of every reader and of every slice question.
C25_ExtraCharsMatchPrompt ==
    /\ call.extraChars = call.ansi
    /\ call.ansi \in {0, lenAnsi}
    /\ sliceCall.extraChars = sliceCall.ansi
    /\ sliceCall.ansi \in {0, lenAnsi}

----------------------------------------------------------------------------
(***************************************************************************)
(* Claims about the prompt of newLine (specification SpecPrompt).          *)
(***************************************************************************)

\* C37: newLine never indexes an empty string.  Whatever prefixPrompt
\* NewCustom was handed (the empty string included) and whatever text
\* Prompt set (the empty string included, and the empty prompt clean()
\* leaves), no call ends in the index panic; when a reader or a slice reader
\* creates the line of a question, prefixPrompt + prompt is not empty and
\* the prompt handed to readline is that string followed by one space when
\* it ends in '?' and by ": " when it does not.
C37_NewLineNeverIndexesEmpty ==
    [][/\ qRet'.err # IndexOutOfRange
       /\ (call = IdleCall /\ call' # IdleCall /\ ~isSlice) =>
             LET asked == prefixPrompt \o CodePoints(qPrompt)
                 given == IF sliceCall'.status = "reading"
                          THEN sliceCall'.prompt ELSE call'.prompt
             IN  /\ Len(asked) > 0
                 /\ SubSeq(given, 1, Len(asked)) = asked
                 /\ asked[Len(asked)] = 63 =>
                        SubSeq(given, Len(asked) + 1, Len(given)) = <<32>>
                 /\ asked[Len(asked)] # 63 =>
                        SubSeq(given, Len(asked) + 1, Len(given)) = <<58, 32>>]_vars

\* NewCustom was handed no prefix or " + "; a first question has been
\* answered and the reader of a second one, whose prompt is empty, has
\* created its line: the prompt is " + : ".
C37_Witness ==
    /\ Len(log) >= 1
    /\ call # IdleCall
    /\ call.start = Len(log) + 1
    /\ sliceCall.status = "idle"
    /\ ~isSlice
    /\ qPrompt = ""
    /\ prefixPrompt = PREFIX
    /\ call.prompt = <<32, 43, 32, 58, 32>>

----------------------------------------------------------------------------
(***************************************************************************)
(* Claims about the boolean strings of quest.New (specification SpecBool). *)
(***************************************************************************)

\* The ReadBool call that read line k of the log went on to ask again.
AskedAgain(k) ==
    IF k < Len(log) THEN log[k + 1].start = log[k].start
    ELSE call # IdleCall /\ call.start = log[k].start

====
